---- MODULE Spec2Model ----
(***************************************************************************)
(* Request dispatch pipeline of supabase-router-core: defineRouter's       *)
(* request handler, composeMiddlewares and validateAuthResult.             *)
(*                                                                         *)
(* One invocation of a composed middleware or of router.handler is a       *)
(* "run".  The asynchronous call structure of a run (middleware calling    *)
(* next(), awaiting it, resuming) is modelled as a small-step machine:     *)
(* ctl[r] is what the run does next, stk[r] the middlewares suspended in   *)
(* `await next()`.  Every middleware kind modelled awaits next() before it *)
(* does anything else, as every middleware of the repository does.         *)
(***************************************************************************)
EXTENDS Integers, Sequences, FiniteSets, TLC

VARIABLES
    router,   \* the RouterConfig the handler closes over: global middlewares
    route,    \* [run -> the RouteDef matched for the run's request]
    ctl,      \* [run -> control state: the step the run executes next]
    stk,      \* [run -> stack of middlewares suspended in await next()]
    index,    \* [owner -> [composition id -> the `index` cursor of dispatch]]
    ctx,      \* [run -> the request context (the part the claims read)]
    auth,     \* [run -> the run's last auth result, options and validation]
    trace     \* [run -> history of the steps the run has executed]

vars == <<router, route, ctl, stk, index, ctx, auth, trace>>

-----------------------------------------------------------------------------
(* Bounds *)

MaxChainMw == 2      \* longest global / route middleware list, SpecChain
MaxPipelineMw == 1   \* longest global / route middleware list, Spec
NumInflight == 2     \* concurrent invocations of one composed middleware
MaxConcMw == 3       \* longest middleware list in SpecConc
MaxRoutes == 3       \* longest route table, SpecMatch
MaxSegments == 2     \* most segments of a route path, SpecCompile
MaxPairs == 3        \* most name=value pairs of a query string, SpecQuery
MaxPieces == 3       \* most pieces of an error message, SpecMessage
MaxCalls == 3        \* most calls on one container, SpecClients
MaxTime == 6         \* the last millisecond of the clock, SpecRate
MaxArrivals == 4     \* most requests that arrive, SpecRate
MaxRequests == 3     \* most requests the router receives, SpecIds

-----------------------------------------------------------------------------
(* Values: a Response, a thrown error, or nothing *)

Resp(status, cors, by) ==
    [t |-> "resp", status |-> status, cors |-> cors, by |-> by]

Err(msg) ==
    [t |-> "err", status |-> 0, cors |-> FALSE, by |-> <<msg, 0>>]

NoVal == [t |-> "none", status |-> 0, cors |-> FALSE, by |-> <<"none", 0>>]

MultipleNextError == Err("next() called multiple times")

HandlerName == <<"H", 0>>

Event(who, ev, n, v) == [who |-> who, ev |-> ev, n |-> n, v |-> v]

Log(r, e) == [trace EXCEPT ![r] = Append(@, e)]

\* a step of the request handler ran / returned a response
Ran(step) == Event(<<step, 0>>, "step", 0, NoVal)

Failed(step, v) == Event(<<step, 0>>, "fail", 0, v)

-----------------------------------------------------------------------------
(* Middlewares *)

\* What a middleware does with next():
\*   pass   awaits next() once and returns its result   (loggingMiddleware)
\*   clone  awaits next() once, returns a copy of it    (timingMiddleware)
\*   short  returns its own response, never calls next  (rateLimitMiddleware)
\*   throw  throws before calling next
\*   twice  awaits next(), then calls next() again and returns that
MwKinds == {"pass", "clone", "short", "throw", "twice"}

Mw(name, kind) == [t |-> "mw", name |-> name, kind |-> kind]

\* composeMiddlewares(mws); id tells the compositions of one run apart
Composed(id, mws) == [t |-> "composed", id |-> id, mws |-> mws]

\* a route without authentication, with these middlewares
PublicRoute(mws) ==
    [authRequired |-> FALSE, middlewares |-> mws]

SeqsUpTo(S, n) == UNION {[1..k -> S] : k \in 0..n}

\* the list of middlewares named <<tag, 0>>, <<tag, 1>>, ... with these kinds
Named(tag, kinds) == [i \in 1..Len(kinds) |-> Mw(<<tag, i - 1>>, kinds[i])]

-----------------------------------------------------------------------------
(* Continuations: the `next` functions handed to a middleware *)

\* () => dispatch(i) of the invocation of composition id whose second
\* argument is last
DispatchK(id, i, mws, last) ==
    [t |-> "dispatch", id |-> id, i |-> i, mws |-> mws, last |-> last]

\* () => routeMiddlewares(context, executeHandler)
RouteChainK == [t |-> "routeChain"]

\* executeHandler
ExecuteHandlerK == [t |-> "executeHandler"]

\* the next function of the caller of a composed middleware used on its own
TerminalK == [t |-> "terminal"]

TerminalName == <<"T", 0>>

Call(m, k) == [op |-> "call", mw |-> m, k |-> k]
Invoke(k) == [op |-> "invoke", k |-> k]
Return(v) == [op |-> "return", v |-> v]
Done(v) == [op |-> "done", v |-> v]
At(step) == [op |-> step]

Runs == DOMAIN ctl

Put(f, key, val) ==
    [x \in (DOMAIN f) \cup {key} |-> IF x = key THEN val ELSE f[x]]

-----------------------------------------------------------------------------
(* Authentication: AuthResult, AuthOptions, checkRoles, validateAuthResult *)

\* an optional boolean field: undefined, true or false
Tri == {"undefined", "true", "false"}

Truthy(x) == x = "true"

\* an optional array field
Missing == [has |-> FALSE, val |-> <<>>]
Given(list) == [has |-> TRUE, val |-> list]

Roles == {"admin", "member"}

\* the role property of a user object: a role, or undefined / null
RoleValues == Roles \cup {"undefined", "null"}

NoUser == [present |-> FALSE, role |-> "undefined"]
User(role) == [present |-> TRUE, role |-> role]
Users == {NoUser} \cup {User(role) : role \in RoleValues}

\* createErrorResponse(message, status): no CORS headers yet
ErrorResponse(status, message) == Resp(status, FALSE, <<message, 0>>)
Unauthorized(message) == ErrorResponse(401, message)
Forbidden(message) == ErrorResponse(403, message)

AuthResult(response, user, bypassed) ==
    [response |-> response, user |-> user, serviceBypassed |-> bypassed]

\* { response: ... }
ResponseOnly(response) == AuthResult(response, NoUser, "undefined")

AuthResults ==
    {AuthResult(resp, u, b) :
        resp \in {NoVal, Unauthorized("Invalid or expired token")},
        u \in Users, b \in Tri}

AllowedRolesValues ==
    {Missing, Given(<<>>), Given(<<"admin">>), Given(<<"member">>),
     Given(<<"admin", "member">>)}

AuthOptionsSet ==
    [allowedMethods : {Given(<<"GET">>)},
     requireUserAuth : Tri,
     requireRBAC : Tri,
     allowedRoles : AllowedRolesValues]

\* the members of an optional array
RoleSet(allowed) == {allowed.val[i] : i \in 1..Len(allowed.val)}

\* checkRoles(userRole, allowedRoles)
CheckRoles(userRole, allowedRoles) ==
    IF Len(allowedRoles) = 0
    THEN FALSE
    ELSE \E i \in 1..Len(allowedRoles) : allowedRoles[i] = userRole

ValidateAuthResultUserFirst(result, options) ==
    IF result.response.t = "resp" THEN result
    ELSE IF Truthy(options.requireUserAuth) /\ ~result.user.present
    THEN ResponseOnly(Unauthorized("User authentication required"))
    ELSE IF Truthy(result.serviceBypassed) THEN result
    ELSE IF Truthy(options.requireRBAC) /\ result.user.present
    THEN IF result.user.role \in {"undefined", "null"}
         THEN ResponseOnly(Forbidden("User role not found"))
         ELSE IF ~options.allowedRoles.has \/ Len(options.allowedRoles.val) = 0
         THEN ResponseOnly(Forbidden("No roles configured for this route"))
         ELSE IF ~CheckRoles(result.user.role, options.allowedRoles.val)
         THEN ResponseOnly(Forbidden("Insufficient permissions"))
         ELSE result
    ELSE result

\* validateAuthResult(result, options)
ValidateAuthResult(result, options) ==
    IF result.response.t = "resp" THEN result
    ELSE IF Truthy(result.serviceBypassed) THEN result
    ELSE IF Truthy(options.requireUserAuth) /\ ~result.user.present
    THEN ResponseOnly(Unauthorized("User authentication required"))
    ELSE IF Truthy(options.requireRBAC) /\ result.user.present
    THEN IF result.user.role \in {"undefined", "null"}
         THEN ResponseOnly(Forbidden("User role not found"))
         ELSE IF ~options.allowedRoles.has \/ Len(options.allowedRoles.val) = 0
         THEN ResponseOnly(Forbidden("No roles configured for this route"))
         ELSE IF ~CheckRoles(result.user.role, options.allowedRoles.val)
         THEN ResponseOnly(Forbidden("Insufficient permissions"))
         ELSE result
    ELSE result

NoAuthResult == AuthResult(NoVal, NoUser, "undefined")

NoOptions ==
    [allowedMethods |-> Missing, requireUserAuth |-> "undefined",
     requireRBAC |-> "undefined", allowedRoles |-> Missing]

\* nothing authenticated yet
NoAuth ==
    [state |-> "none", result |-> NoAuthResult, options |-> NoOptions,
     validated |-> NoAuthResult, getUser |-> FALSE]

\* the Authorization header of a request: absent, or its text, which is
\* token or "Bearer " followed by token
NoHeader == [has |-> FALSE, bearer |-> FALSE, token |-> ""]

\* the request (method, Authorization header) and what the handler puts
\* in the context for it
Context(method, authorization) ==
    [user |-> NoUser, method |-> method, path |-> <<>>,
     authorization |-> authorization, supabaseClient |-> FALSE, params |-> <<>>,
     search |-> <<>>, query |-> <<>>, sanitizedParams |-> <<>>,
     contentType |-> Missing, body |-> "none", db |-> FALSE]

NoContext == Context("GET", NoHeader)

-----------------------------------------------------------------------------
(* composeMiddlewares *)

IndexOwnerShared(r) == CHOOSE o \in DOMAIN index : \A q \in DOMAIN index : o <= q

\* the invocation whose `index` variable a run's dispatch reads and writes:
\* `let index = -1` is declared inside the returned function
IndexOwner(r) == r

DispatchRejectsOnlyBelow(i, idx) == i < idx

\* if (i <= index) return Promise.reject(...)
DispatchRejects(i, idx) == i <= idx

DispatchTargetReversed(mws, i, last, id) ==
    IF i < Len(mws)
    THEN Call(mws[Len(mws) - i], DispatchK(id, i + 1, mws, last))
    ELSE Invoke(last)

DispatchTargetSkipsLast(mws, i, last, id) ==
    IF i < Len(mws) - 1
    THEN Call(mws[i + 1], DispatchK(id, i + 1, mws, last))
    ELSE Invoke(last)

\* i < middlewares.length ? middlewares[i] : last
DispatchTarget(mws, i, last, id) ==
    IF i < Len(mws)
    THEN Call(mws[i + 1], DispatchK(id, i + 1, mws, last))
    ELSE Invoke(last)

\* the function composeMiddlewares returns is called with (ctx, next)
CallComposed(r) ==
    /\ ctl[r].op = "call"
    /\ ctl[r].mw.t = "composed"
    /\ LET m == ctl[r].mw
           k == ctl[r].k
       IN IF Len(m.mws) = 0
          THEN \* async (_ctx, next) => await next()
               /\ ctl' = [ctl EXCEPT ![r] = Invoke(k)]
               /\ UNCHANGED index
          ELSE \* let index = -1; return dispatch(0)
               /\ index' = [index EXCEPT ![IndexOwner(r)] = Put(@, m.id, -1)]
               /\ ctl' = [ctl EXCEPT ![r] = Invoke(DispatchK(m.id, 0, m.mws, k))]
    /\ UNCHANGED <<auth, router, route, stk, ctx, trace>>

\* dispatch(i)
Dispatch(r) ==
    /\ ctl[r].op = "invoke"
    /\ ctl[r].k.t = "dispatch"
    /\ LET k == ctl[r].k
           o == IndexOwner(r)
       IN IF DispatchRejects(k.i, index[o][k.id])
          THEN /\ ctl' = [ctl EXCEPT ![r] = Return(MultipleNextError)]
               /\ UNCHANGED index
          ELSE /\ index' = [index EXCEPT ![o][k.id] = k.i]
               /\ ctl' = [ctl EXCEPT ![r] = DispatchTarget(k.mws, k.i, k.last, k.id)]
    /\ UNCHANGED <<auth, router, route, stk, ctx, trace>>

-----------------------------------------------------------------------------
(* A middleware runs *)

\* the middleware is called: its code up to the first await next()
CallMiddleware(r) ==
    /\ ctl[r].op = "call"
    /\ ctl[r].mw.t = "mw"
    /\ LET m == ctl[r].mw
           k == ctl[r].k
       IN /\ trace' = Log(r, Event(m.name, "before", 0, NoVal))
          /\ CASE m.kind = "short" ->
                    /\ ctl' = [ctl EXCEPT ![r] = Return(Resp(429, FALSE, m.name))]
                    /\ UNCHANGED stk
               [] m.kind = "throw" ->
                    /\ ctl' = [ctl EXCEPT ![r] = Return(Err("middleware error"))]
                    /\ UNCHANGED stk
               [] OTHER ->
                    /\ stk' = [stk EXCEPT ![r] =
                          <<[name |-> m.name, kind |-> m.kind, k |-> k, n |-> 1]>> \o @]
                    /\ ctl' = [ctl EXCEPT ![r] = Invoke(k)]
    /\ UNCHANGED <<auth, router, route, index, ctx>>

\* await next() settles: the middleware on top of the stack resumes
ResumeMiddleware(r) ==
    /\ ctl[r].op = "return"
    /\ stk[r] /= <<>>
    /\ LET f == Head(stk[r])
           v == ctl[r].v
       IN /\ trace' = Log(r, Event(f.name, "after", f.n, v))
          /\ IF v.t = "err"
             THEN \* the await throws; none of the kinds catches
                  /\ stk' = [stk EXCEPT ![r] = Tail(@)]
                  /\ ctl' = [ctl EXCEPT ![r] = Return(v)]
             ELSE CASE f.kind = "clone" ->
                         \* new Response(response.body, response)
                         /\ stk' = [stk EXCEPT ![r] = Tail(@)]
                         /\ ctl' = [ctl EXCEPT ![r] = Return([v EXCEPT !.by = f.name])]
                    [] f.kind = "twice" /\ f.n = 1 ->
                         /\ stk' = [stk EXCEPT ![r] = <<[f EXCEPT !.n = 2]>> \o Tail(@)]
                         /\ ctl' = [ctl EXCEPT ![r] = Invoke(f.k)]
                    [] OTHER ->
                         /\ stk' = [stk EXCEPT ![r] = Tail(@)]
                         /\ ctl' = [ctl EXCEPT ![r] = Return(v)]
    /\ UNCHANGED <<auth, router, route, index, ctx>>

\* the promise of the outermost call settles
Finish(r) ==
    /\ ctl[r].op = "return"
    /\ stk[r] = <<>>
    /\ ctl' = [ctl EXCEPT ![r] = Done(ctl[r].v)]
    /\ UNCHANGED <<auth, router, route, stk, index, ctx, trace>>

-----------------------------------------------------------------------------
(* defineRouter.handler: compose and execute middlewares *)

\* what route.handler does: returns a value, returns a Response, throws a
\* Response, throws anything else
HandlerOutcomes == {"value", "response", "throwResponse", "throwError"}

\* executeHandler: every outcome becomes a Response carrying corsHeaders
HandlerResponse(outcome) ==
    CASE outcome = "value" -> Resp(200, TRUE, HandlerName)
      [] outcome = "response" -> Resp(201, TRUE, HandlerName)
      [] outcome = "throwResponse" -> Resp(409, TRUE, HandlerName)
      [] outcome = "throwError" -> Resp(500, TRUE, HandlerName)

GlobalMiddlewareListFromRoute(r) == route[r].middlewares

\* const globalMiddlewareList = config.middlewares ?? []
GlobalMiddlewareList(r) == router.middlewares

RouteMiddlewareListFromConfig(r) == router.middlewares

\* const routeMiddlewareList = route.middlewares ?? []
RouteMiddlewareList(r) == route[r].middlewares

\* globalMiddlewares(context, () => routeMiddlewares(context, executeHandler))
RunChain(r) ==
    /\ ctl[r].op = "chain"
    /\ ctl' = [ctl EXCEPT ![r] =
                  Call(Composed("global", GlobalMiddlewareList(r)), RouteChainK)]
    /\ trace' = Log(r, Ran("chain"))
    /\ UNCHANGED <<auth, router, route, stk, index, ctx>>

\* () => routeMiddlewares(context, executeHandler)
EnterRouteChain(r) ==
    /\ ctl[r].op = "invoke"
    /\ ctl[r].k.t = "routeChain"
    /\ ctl' = [ctl EXCEPT ![r] =
                  Call(Composed("route", RouteMiddlewareList(r)), ExecuteHandlerK)]
    /\ UNCHANGED <<auth, router, route, stk, index, ctx, trace>>

ExecuteHandler(r) ==
    /\ ctl[r].op = "invoke"
    /\ ctl[r].k.t = "executeHandler"
    /\ \E outcome \in HandlerOutcomes :
          /\ ctl' = [ctl EXCEPT ![r] = Return(HandlerResponse(outcome))]
          /\ trace' = Log(r, Event(HandlerName, "handler", 0, HandlerResponse(outcome)))
    /\ UNCHANGED <<auth, router, route, stk, index, ctx>>

-----------------------------------------------------------------------------
(* defineRouter.handler: from the request to the middleware chain *)

\* String.prototype.toUpperCase on the method names of the model
ToUpperCase(m) ==
    CASE m = "get" -> "GET"
      [] m = "post" -> "POST"
      [] OTHER -> m

UpperAll(list) == [i \in 1..Len(list) |-> ToUpperCase(list[i])]

Includes(list, x) == \E i \in 1..Len(list) : list[i] = x

\* route.authentication: absent, or the options given on the route
NoAuthentication ==
    [has |-> FALSE, allowedMethods |-> Missing, requireUserAuth |-> "undefined",
     requireRBAC |-> "undefined", allowedRoles |-> Missing]

Authentications ==
    {NoAuthentication} \cup
    [has : {TRUE},
     allowedMethods : {Missing, Given(<<"post">>)},
     requireUserAuth : {"undefined", "true"},
     requireRBAC : {"undefined", "true"},
     allowedRoles : {Missing, Given(<<"admin">>)}]

\* the routes of the router: authRequired defaults to true
RouteDefs ==
    {[method |-> "GET", authRequired |-> FALSE, allowedRoles |-> Missing,
      authentication |-> NoAuthentication, middlewares |-> Named("R", m)] :
        m \in SeqsUpTo(MwKinds, MaxPipelineMw)}
    \cup
    {[method |-> "GET", authRequired |-> TRUE, allowedRoles |-> ar,
      authentication |-> a, middlewares |-> Named("R", m)] :
        ar \in {Missing, Given(<<"admin">>)}, a \in Authentications,
        m \in SeqsUpTo(MwKinds, MaxPipelineMw)}

\* { ...(route.authentication || {}),
\*   allowedMethods: route.authentication?.allowedMethods || [route.method],
\*   ...(route.allowedRoles && { requireRBAC: true, allowedRoles }) }
MergeAuthOptions(rt) ==
    [f \in (DOMAIN rt.authentication) \ {"has"} |->
        CASE f = "allowedMethods" ->
                IF rt.authentication.allowedMethods.has
                THEN rt.authentication.allowedMethods
                ELSE Given(<<rt.method>>)
          [] f = "requireRBAC" ->
                IF rt.allowedRoles.has THEN "true" ELSE rt.authentication.requireRBAC
          [] f = "allowedRoles" ->
                IF rt.allowedRoles.has
                THEN rt.allowedRoles
                ELSE rt.authentication.allowedRoles
          [] OTHER -> rt.authentication[f]]

\* the steps of the handler, in the order of the code
StepOrder ==
    <<"sanitize", "query", "params", "body", "db", "auth", "authHandler", "chain">>

StepAfterSwapped(step) ==
    CASE step = "sanitize" -> "query"
      [] step = "query" -> "params"
      [] step = "params" -> "auth"
      [] step = "auth" -> "authHandler"
      [] step = "authHandler" -> "body"
      [] step = "body" -> "db"
      [] step = "db" -> "chain"

\* the step the handler reaches when step has succeeded
StepAfter(step) ==
    CASE step = "sanitize" -> "query"
      [] step = "query" -> "params"
      [] step = "params" -> "body"
      [] step = "body" -> "db"
      [] step = "db" -> "auth"
      [] step = "auth" -> "authHandler"
      [] step = "authHandler" -> "chain"

\* headers: { ...corsHeaders, ... } / headers.set(key, value) for corsHeaders
WithCors(v) == [v EXCEPT !.cors = TRUE]

\* a step succeeds and the handler goes on, or it returns a response
Proceed(r, step) ==
    /\ ctl' = [ctl EXCEPT ![r] = At(StepAfter(step))]
    /\ trace' = [trace EXCEPT ![r] = Append(@, Ran(step))]

Respond(r, step, v) ==
    /\ ctl' = [ctl EXCEPT ![r] = Done(v)]
    /\ trace' = [trace EXCEPT ![r] = Append(Append(@, Ran(step)), Failed(step, v))]

\* matchRoute, getAllowedMethods, the OPTIONS preflight and the 404, for a
\* router with the routes defs and a request with one of the headers
Receive(r, defs, headers) ==
    /\ ctl[r].op = "idle"
    /\ UNCHANGED <<stk, index, auth>>
    /\ \E h \in headers :
       \/ \E status \in {204, 404} :
             \* OPTIONS: 404 when no route matches the path, else 204
             /\ ctl' = [ctl EXCEPT ![r] = Done(Resp(status, TRUE, <<"options", 0>>))]
             /\ trace' = [trace EXCEPT ![r] = <<>>]
             /\ ctx' = [ctx EXCEPT ![r] = Context("OPTIONS", h)]
             /\ UNCHANGED route
       \/ \* no matching route
          /\ ctl' = [ctl EXCEPT ![r] = Done(Resp(404, TRUE, <<"notFound", 0>>))]
          /\ trace' = [trace EXCEPT ![r] = <<>>]
          /\ ctx' = [ctx EXCEPT ![r] = Context("GET", h)]
          /\ UNCHANGED route
       \/ \E rt \in defs :
             /\ route' = [route EXCEPT ![r] = rt]
             /\ ctl' = [ctl EXCEPT ![r] = At("sanitize")]
             /\ trace' = [trace EXCEPT ![r] = <<>>]
             /\ ctx' = [ctx EXCEPT ![r] = Context(rt.method, h)]
    /\ UNCHANGED router

ReceiveRequest(r) == Receive(r, RouteDefs, {NoHeader})

\* sanitizePathParam over the captured parameters
SanitizeParams(r) ==
    /\ ctl[r].op = "sanitize"
    /\ \/ Proceed(r, "sanitize")
       \/ Respond(r, "sanitize", Resp(400, TRUE, <<"sanitize", 0>>))
    /\ UNCHANGED <<auth, router, route, stk, index, ctx>>

\* parseQuerySafely, then requestSchema.query.parse when the route has one
ValidateQuery(r) ==
    /\ ctl[r].op = "query"
    /\ \/ Proceed(r, "query")
       \/ Respond(r, "query", Resp(400, TRUE, <<"query", 0>>))
    /\ UNCHANGED <<auth, router, route, stk, index, ctx>>

\* requestSchema.params.parse when the route has one
ValidatePathParams(r) ==
    /\ ctl[r].op = "params"
    /\ \/ Proceed(r, "params")
       \/ Respond(r, "params", Resp(400, TRUE, <<"params", 0>>))
    /\ UNCHANGED <<auth, router, route, stk, index, ctx>>

\* parseAndValidateBody when the route has a body schema: it returns, throws
\* a Response (400 / 415, created without CORS headers) or throws an error
ParseBody(r) ==
    /\ ctl[r].op = "body"
    /\ \/ Proceed(r, "body")
       \/ \E status \in {400, 415} :
             Respond(r, "body", WithCors(ErrorResponse(status, "Validation failed")))
       \/ Respond(r, "body", Resp(400, TRUE, <<"body", 0>>))
    /\ UNCHANGED <<auth, router, route, stk, index, ctx>>

\* container.getOrCreateDbClient() when the route has useDatabase
AcquireDbClient(r) ==
    /\ ctl[r].op = "db"
    /\ \/ Proceed(r, "db")
       \/ Respond(r, "db", Resp(500, TRUE, <<"db", 0>>))
    /\ UNCHANGED <<auth, router, route, stk, index, ctx>>

AuthConfigErrorUncaught == Err("Authentication configuration error")

\* catch (error): 500 { error: "Authentication configuration error" }, with
\* the CORS headers
AuthConfigError == Resp(500, TRUE, <<"Authentication configuration error", 0>>)

\* request method not in the allowed methods of the options
MethodNotAllowed(method, options) ==
    LET allowed == UpperAll(options.allowedMethods.val)
    IN /\ method /= "OPTIONS"
       /\ Len(allowed) > 0
       /\ ~Includes(allowed, ToUpperCase(method))

\* a route without auth gets the anonymous client, best effort; an
\* auth-required route resolves the auth handler, merges the options and
\* checks the method.  rejects: whether await getAuthHandler() rejects;
\* clients: whether container.getOrCreateAnonClient() returns a client
Resolve(r, rejects, clients) ==
    /\ ctl[r].op = "auth"
    /\ IF ~route[r].authRequired
       THEN /\ ctl' = [ctl EXCEPT ![r] = At("chain")]
            /\ \E client \in clients :
                  ctx' = [ctx EXCEPT ![r].supabaseClient = client]
            /\ UNCHANGED <<auth, trace>>
       ELSE LET options == MergeAuthOptions(route[r])
            IN /\ UNCHANGED ctx
               /\ \E reject \in rejects :
                     IF reject
                     THEN /\ Respond(r, "auth", AuthConfigError)
                          /\ auth' = [auth EXCEPT ![r].state = "threw"]
                     ELSE IF MethodNotAllowed(ctx[r].method, options)
                     THEN /\ Respond(r, "auth", Resp(405, TRUE, <<"methodNotAllowed", 0>>))
                          /\ UNCHANGED auth
                     ELSE /\ Proceed(r, "auth")
                          /\ auth' = [auth EXCEPT ![r] =
                                  [NoAuth EXCEPT !.state = "options", !.options = options]]
    /\ UNCHANGED <<router, route, stk, index>>

\* a router whose configuration is not known: getAuthHandler and the
\* anonymous client may fail or not
ResolveAuth(r) == Resolve(r, BOOLEAN, BOOLEAN)

\* authHandler(req, authOptions), validateAuthResult, authContext.
\* handled: what the auth handler may return; throws: whether it may throw
Authenticate(r, handled, throws) ==
    /\ ctl[r].op = "authHandler"
    /\ \/ \* the auth handler throws
          /\ throws
          /\ Respond(r, "authHandler", AuthConfigError)
          /\ auth' = [auth EXCEPT ![r].state = "threw"]
          /\ UNCHANGED ctx
       \/ \E h \in handled :
             LET validated == ValidateAuthResult(h.result, auth[r].options)
             IN /\ auth' = [auth EXCEPT ![r].state = "validated",
                                        ![r].result = h.result,
                                        ![r].validated = validated,
                                        ![r].getUser = h.getUser]
                /\ IF validated.response.t = "resp"
                   THEN /\ Respond(r, "authHandler", WithCors(validated.response))
                        /\ UNCHANGED ctx
                   ELSE /\ Proceed(r, "authHandler")
                        /\ ctx' = [ctx EXCEPT ![r].user = validated.user]
    /\ UNCHANGED <<router, route, stk, index>>

\* a custom auth handler: any result, or an exception
InvokeAuthHandler(r) ==
    Authenticate(r, {[result |-> res, getUser |-> FALSE] : res \in AuthResults}, TRUE)

\* the response has been handed to the caller of router.handler: the locals
\* of the call are gone, the router waits for the next request
RequestOver(r) ==
    /\ ctl[r].op = "done"
    /\ ctl' = [ctl EXCEPT ![r] = At("idle")]
    /\ route' = [route EXCEPT ![r] = PublicRoute(<<>>)]
    /\ stk' = [stk EXCEPT ![r] = <<>>]
    /\ index' = [index EXCEPT ![r] = <<>>]
    /\ ctx' = [ctx EXCEPT ![r] = NoContext]
    /\ auth' = [auth EXCEPT ![r] = NoAuth]
    /\ trace' = [trace EXCEPT ![r] = <<>>]
    /\ UNCHANGED router

-----------------------------------------------------------------------------
(* Spec: the router serves requests, one after the other *)

Init ==
    /\ \E g \in SeqsUpTo(MwKinds, MaxPipelineMw) :
          router = [middlewares |-> Named("G", g), terminal |-> "resp"]
    /\ route = [r \in {"req"} |-> PublicRoute(<<>>)]
    /\ ctl = [r \in {"req"} |-> At("idle")]
    /\ stk = [r \in {"req"} |-> <<>>]
    /\ index = [r \in {"req"} |-> <<>>]
    /\ ctx = [r \in {"req"} |-> NoContext]
    /\ auth = [r \in {"req"} |-> NoAuth]
    /\ trace = [r \in {"req"} |-> <<>>]

Next ==
    \/ ReceiveRequest("req")
    \/ SanitizeParams("req")
    \/ ValidateQuery("req")
    \/ ValidatePathParams("req")
    \/ ParseBody("req")
    \/ AcquireDbClient("req")
    \/ ResolveAuth("req")
    \/ InvokeAuthHandler("req")
    \/ RunChain("req")
    \/ CallComposed("req")
    \/ Dispatch("req")
    \/ EnterRouteChain("req")
    \/ CallMiddleware("req")
    \/ ResumeMiddleware("req")
    \/ ExecuteHandler("req")
    \/ Finish("req")
    \/ RequestOver("req")

Spec == Init /\ [][Next]_vars

-----------------------------------------------------------------------------
(* SpecChain: the middleware chain of one request that reached it *)

InitChain ==
    /\ \E g \in SeqsUpTo(MwKinds, MaxChainMw) :
          router = [middlewares |-> Named("G", g), terminal |-> "resp"]
    /\ \E m \in SeqsUpTo(MwKinds, MaxChainMw) :
          route = [r \in {"req"} |-> PublicRoute(Named("R", m))]
    /\ ctl = [r \in {"req"} |-> At("chain")]
    /\ stk = [r \in {"req"} |-> <<>>]
    /\ index = [r \in {"req"} |-> <<>>]
    /\ ctx = [r \in {"req"} |-> NoContext]
    /\ auth = [r \in {"req"} |-> NoAuth]
    /\ trace = [r \in {"req"} |-> <<>>]

NextChain ==
    \/ RunChain("req")
    \/ CallComposed("req")
    \/ Dispatch("req")
    \/ EnterRouteChain("req")
    \/ CallMiddleware("req")
    \/ ResumeMiddleware("req")
    \/ ExecuteHandler("req")
    \/ Finish("req")

SpecChain == InitChain /\ [][NextChain]_vars

-----------------------------------------------------------------------------
(* A composed middleware used on its own: const composed =                 *)
(* composeMiddlewares(mws), then composed(ctx, next) per request           *)

\* the caller's next: resolves to a response or rejects, as the router
\* configuration of the model says
TerminalValue ==
    IF router.terminal = "resp"
    THEN Resp(200, TRUE, TerminalName)
    ELSE Err("terminal error")

Terminal(r) ==
    /\ ctl[r].op = "invoke"
    /\ ctl[r].k.t = "terminal"
    /\ ctl' = [ctl EXCEPT ![r] = Return(TerminalValue)]
    /\ trace' = Log(r, Event(TerminalName, "terminal", 0, TerminalValue))
    /\ UNCHANGED <<auth, router, route, stk, index, ctx>>

-----------------------------------------------------------------------------
(* SpecConc: one composed middleware, built once, invoked for several      *)
(* requests that are in flight together                                    *)

\* middlewares that call next() at most once
OnceKinds == {"pass", "clone", "short", "throw"}

InitConc ==
    /\ \E g \in SeqsUpTo(OnceKinds, MaxConcMw) : \E term \in {"resp", "throw"} :
          router = [middlewares |-> Named("M", g), terminal |-> term]
    /\ route = [r \in 1..NumInflight |-> PublicRoute(<<>>)]
    /\ ctl = [r \in 1..NumInflight |-> At("idle")]
    /\ stk = [r \in 1..NumInflight |-> <<>>]
    /\ index = [r \in 1..NumInflight |-> <<>>]
    /\ ctx = [r \in 1..NumInflight |-> NoContext]
    /\ auth = [r \in 1..NumInflight |-> NoAuth]
    /\ trace = [r \in 1..NumInflight |-> <<>>]

\* composed(ctx, next) for one more request
InvokeComposed(r) ==
    /\ ctl[r].op = "idle"
    /\ ctl' = [ctl EXCEPT ![r] = Call(Composed("chain", router.middlewares), TerminalK)]
    /\ UNCHANGED <<auth, router, route, stk, index, ctx, trace>>

NextConc ==
    \E r \in Runs :
        \/ InvokeComposed(r)
        \/ CallComposed(r)
        \/ Dispatch(r)
        \/ CallMiddleware(r)
        \/ ResumeMiddleware(r)
        \/ Terminal(r)
        \/ Finish(r)

SpecConc == InitConc /\ [][NextConc]_vars

-----------------------------------------------------------------------------
(* SpecAssoc: three groupings of the middlewares A, B, C and the empty     *)
(* composition, each invoked once with the same terminal continuation      *)

Shapes == {"flat", "left", "right", "empty"}

MwA == router.middlewares[1]
MwB == router.middlewares[2]
MwC == router.middlewares[3]

Shape(r) ==
    CASE r = "flat" -> Composed("outer", <<MwA, MwB, MwC>>)
      [] r = "left" -> Composed("outer", <<Composed("inner", <<MwA, MwB>>), MwC>>)
      [] r = "right" -> Composed("outer", <<MwA, Composed("inner", <<MwB, MwC>>)>>)
      [] r = "empty" -> Composed("outer", <<>>)

InitAssoc ==
    /\ \E g \in [1..3 -> MwKinds] : \E term \in {"resp", "throw"} :
          router = [middlewares |-> [i \in 1..3 |-> Mw(<<<<"A", "B", "C">>[i], 0>>, g[i])],
                    terminal |-> term]
    /\ route = [r \in Shapes |-> PublicRoute(<<>>)]
    /\ ctl = [r \in Shapes |-> At("idle")]
    /\ stk = [r \in Shapes |-> <<>>]
    /\ index = [r \in Shapes |-> <<>>]
    /\ ctx = [r \in Shapes |-> NoContext]
    /\ auth = [r \in Shapes |-> NoAuth]
    /\ trace = [r \in Shapes |-> <<>>]

\* one grouping is invoked at a time
InvokeShape(r) ==
    /\ ctl[r].op = "idle"
    /\ \A q \in Runs : ctl[q].op \in {"idle", "done"}
    /\ ctl' = [ctl EXCEPT ![r] = Call(Shape(r), TerminalK)]
    /\ UNCHANGED <<auth, router, route, stk, index, ctx, trace>>

NextAssoc ==
    \E r \in Runs :
        \/ InvokeShape(r)
        \/ CallComposed(r)
        \/ Dispatch(r)
        \/ CallMiddleware(r)
        \/ ResumeMiddleware(r)
        \/ Terminal(r)
        \/ Finish(r)

SpecAssoc == InitAssoc /\ [][NextAssoc]_vars

-----------------------------------------------------------------------------
(* SpecAuth: validateAuthResult applied to every result and policy *)

InitAuth ==
    /\ router = [middlewares |-> <<>>, terminal |-> "resp"]
    /\ route = [r \in {"req"} |-> PublicRoute(<<>>)]
    /\ ctl = [r \in {"req"} |-> At("idle")]
    /\ stk = [r \in {"req"} |-> <<>>]
    /\ index = [r \in {"req"} |-> <<>>]
    /\ ctx = [r \in {"req"} |-> NoContext]
    /\ \E result \in AuthResults : \E options \in AuthOptionsSet :
          auth = [r \in {"req"} |->
                    [state |-> "result", result |-> result, options |-> options,
                     validated |-> NoAuthResult, getUser |-> FALSE]]
    /\ trace = [r \in {"req"} |-> <<>>]

\* const validated = validateAuthResult(authResult, authOptions)
Validate(r) ==
    /\ auth[r].state = "result"
    /\ auth' = [auth EXCEPT ![r].state = "validated",
                            ![r].validated =
                                ValidateAuthResult(auth[r].result, auth[r].options)]
    /\ UNCHANGED <<router, route, ctl, stk, index, ctx, trace>>

NextAuth == Validate("req")

SpecAuth == InitAuth /\ [][NextAuth]_vars

-----------------------------------------------------------------------------
(* A router without authHandler: createDefaultAuthHandler (SpecDefault) *)

\* container.env: which of the variables are set
Env(url, serviceKey, anonKey) ==
    [url |-> url, serviceKey |-> serviceKey, anonKey |-> anonKey]

Envs ==
    {Env(TRUE, TRUE, TRUE), Env(FALSE, TRUE, TRUE), Env(TRUE, FALSE, TRUE),
     Env(TRUE, TRUE, FALSE)}

\* SUPABASE_SERVICE_ROLE_KEY, SUPABASE_ANON_KEY, and the JWT of a user
ServiceKey == "service-role-key"
AnonKey == "anon-key"
Tokens == {"", ServiceKey, AnonKey, "jwt"}

Headers == {NoHeader} \cup [has : {TRUE}, bearer : BOOLEAN, token : Tokens]

\* !authHeader: no header, or the empty text
HeaderFalsy(h) == ~h.has \/ (~h.bearer /\ h.token = "")

\* authHeader?.replace("Bearer ", "")
TokenOf(h) == h.token

\* the checks of createDefaultAuthHandler on the environment
DefaultHandlerThrows(env) == ~env.url \/ ~env.serviceKey \/ ~env.anonKey

\* container.getOrCreateAnonClient()
AnonClientThrows(env) == ~env.url \/ ~env.anonKey

\* what the handler returns, and whether it has called auth.getUser
Handled(result, getUser) == [result |-> result, getUser |-> getUser]

DefaultAuthHandlerUserFirst(h, options, userData) ==
    IF HeaderFalsy(h) \/ TokenOf(h) = ""
    THEN Handled(ResponseOnly(Unauthorized("Authorization header required")), FALSE)
    ELSE IF ~userData.present
    THEN Handled(ResponseOnly(Unauthorized("Invalid or expired token")), TRUE)
    ELSE Handled(AuthResult(NoVal, userData, "false"), TRUE)

\* the handler createDefaultAuthHandler returns; userData is what
\* serviceClient.auth.getUser(token) gives when it is called
DefaultAuthHandler(h, options, userData) ==
    IF HeaderFalsy(h) \/ TokenOf(h) = ""
    THEN Handled(ResponseOnly(Unauthorized("Authorization header required")), FALSE)
    ELSE IF /\ Truthy(options.requireServiceRole) \/ Truthy(options.bypassWithServiceRole)
            /\ TokenOf(h) = ServiceKey
    THEN Handled(AuthResult(NoVal, NoUser, "true"), FALSE)
    ELSE IF Truthy(options.requireServiceRole)
    THEN Handled(ResponseOnly(Unauthorized("Service role key required")), FALSE)
    ELSE IF Truthy(options.bypassWithAnonRole) /\ TokenOf(h) = AnonKey
    THEN Handled(AuthResult(NoVal, NoUser, "true"), FALSE)
    ELSE IF options.requireUserAuth = "false"
    THEN Handled(AuthResult(NoVal, NoUser, "undefined"), FALSE)
    ELSE IF ~userData.present
    THEN Handled(ResponseOnly(Unauthorized("Invalid or expired token")), TRUE)
    ELSE IF /\ Truthy(options.requireRBAC) /\ options.allowedRoles.has
            /\ userData.role \in {"undefined", "null"}
    THEN Handled(ResponseOnly(Forbidden("User role not found")), TRUE)
    ELSE IF /\ Truthy(options.requireRBAC) /\ options.allowedRoles.has
            /\ ~Includes(options.allowedRoles.val, userData.role)
    THEN Handled(ResponseOnly(Forbidden("Insufficient permissions")), TRUE)
    ELSE Handled(AuthResult(NoVal, userData, "false"), TRUE)

\* route.authentication of the routes of this router
NoServiceOptions ==
    [has |-> FALSE, allowedMethods |-> Missing, requireUserAuth |-> "undefined",
     requireRBAC |-> "undefined", allowedRoles |-> Missing,
     requireServiceRole |-> "undefined", bypassWithServiceRole |-> "undefined",
     bypassWithAnonRole |-> "undefined"]

ServiceAuthentications ==
    {NoServiceOptions} \cup
    [has : {TRUE},
     allowedMethods : {Missing},
     requireUserAuth : Tri,
     requireRBAC : {"undefined", "true"},
     allowedRoles : {Missing, Given(<<"admin">>)},
     requireServiceRole : {"undefined", "true"},
     bypassWithServiceRole : {"undefined", "true"},
     bypassWithAnonRole : {"undefined", "true"}]

\* the routes as config.routes declares them: authRequired may be left out
DeclaredRoutes ==
    {[method |-> "GET", authRequired |-> ar, allowedRoles |-> Missing,
      authentication |-> a, middlewares |-> <<>>] :
        ar \in {"undefined", "true"}, a \in ServiceAuthentications}
    \cup
    {[method |-> "GET", authRequired |-> "false", allowedRoles |-> Missing,
      authentication |-> NoServiceOptions, middlewares |-> <<>>]}

AuthRequiredAlways(declared) == TRUE

\* route.authRequired ?? true
AuthRequiredOrDefault(declared) ==
    IF declared = "undefined" THEN TRUE ELSE declared = "true"

\* the route defineRouter compiles from a declared one
CompiledRoute(def) ==
    [method |-> def.method, declared |-> def.authRequired,
     authRequired |-> AuthRequiredOrDefault(def.authRequired),
     allowedRoles |-> def.allowedRoles, authentication |-> def.authentication,
     middlewares |-> def.middlewares]

CompiledRoutes == {CompiledRoute(def) : def \in DeclaredRoutes}

\* defineRouter(config): it throws for a wildcard origin with credentials;
\* the auth handler is not created here but by the first getAuthHandler()
DefineRouter(r) ==
    /\ ctl[r].op = "config"
    /\ ctl' = [ctl EXCEPT ![r] =
                 IF router.corsHeaders = "wildcardWithCredentials"
                 THEN At("buildFailed")
                 ELSE At("idle")]
    /\ UNCHANGED <<router, route, stk, index, ctx, auth, trace>>

ReceiveRequestDefault(r) == Receive(r, CompiledRoutes, Headers)

\* getAuthHandler() creates the default handler from the environment
ResolveAuthDefault(r) ==
    Resolve(r, {DefaultHandlerThrows(router.env)}, {~AnonClientThrows(router.env)})

InvokeDefaultAuthHandler(r) ==
    Authenticate(r,
        {DefaultAuthHandler(ctx[r].authorization, auth[r].options, userData) :
            userData \in Users},
        FALSE)

InitDefault ==
    /\ \E env \in Envs : \E cors \in {"none", "wildcardWithCredentials"} :
          router = [middlewares |-> <<>>, terminal |-> "resp", env |-> env,
                    corsHeaders |-> cors]
    /\ route = [r \in {"req"} |-> PublicRoute(<<>>)]
    /\ ctl = [r \in {"req"} |-> At("config")]
    /\ stk = [r \in {"req"} |-> <<>>]
    /\ index = [r \in {"req"} |-> <<>>]
    /\ ctx = [r \in {"req"} |-> NoContext]
    /\ auth = [r \in {"req"} |-> NoAuth]
    /\ trace = [r \in {"req"} |-> <<>>]

NextDefault ==
    \/ DefineRouter("req")
    \/ ReceiveRequestDefault("req")
    \/ SanitizeParams("req")
    \/ ValidateQuery("req")
    \/ ValidatePathParams("req")
    \/ ParseBody("req")
    \/ AcquireDbClient("req")
    \/ ResolveAuthDefault("req")
    \/ InvokeDefaultAuthHandler("req")
    \/ RunChain("req")
    \/ CallComposed("req")
    \/ EnterRouteChain("req")
    \/ ExecuteHandler("req")
    \/ Finish("req")
    \/ RequestOver("req")

SpecDefault == InitDefault /\ [][NextDefault]_vars

-----------------------------------------------------------------------------
(* Route lookup: compileRoutes, matchRoute, getAllowedMethods (SpecMatch) *)

\* a path is the sequence of its segments; a segment of a route path is a
\* literal or a parameter (:name)
Lit(text) == [param |-> FALSE, text |-> text]
Param(name) == [param |-> TRUE, text |-> name]

\* segments SAFE_PATH_PARAM_PATTERN accepts, and one it does not
SafeSegments == {"users", "me", "42", "items"}
Segments == SafeSegments \cup {"a~b"}

RoutePaths ==
    {<<Lit("users"), Param("id")>>, <<Lit("users"), Lit("me")>>, <<Lit("items")>>}

RequestPaths ==
    {<<"users", "me">>, <<"users", "42">>, <<"users", "a~b">>, <<"items">>,
     <<"items", "42">>}

RouteMethods == {"GET", "POST"}
RequestMethods == {"GET", "POST", "DELETE", "OPTIONS"}

\* route.regex.test(pathname) for the regex compileRoute builds: anchored,
\* every parameter replaced by SAFE_PATH_PARAM_PATTERN
RegexTest(routePath, pathname) ==
    /\ Len(routePath) = Len(pathname)
    /\ \A i \in 1..Len(routePath) :
          IF routePath[i].param
          THEN pathname[i] \in SafeSegments
          ELSE pathname[i] = routePath[i].text

\* config.routes: idx is the position of the declaration
RouteTables ==
    {[i \in 1..Len(t) |-> [method |-> t[i][1], path |-> t[i][2], idx |-> i]] :
        t \in SeqsUpTo(RouteMethods \X RoutePaths, MaxRoutes)}

\* compileRoutes: the routes, and the routes of each method in the order of
\* the declarations
CompileRoutes(routes) ==
    [routes |-> routes,
     routesByMethod |->
        [m \in {routes[i].method : i \in 1..Len(routes)} |->
            SelectSeq(routes, LAMBDA rt : rt.method = m)]]

NoMatch == [found |-> FALSE, route |-> [method |-> "", path |-> <<>>, idx |-> 0]]
Match(rt) == [found |-> TRUE, route |-> rt]

\* the index alone, for every method
RoutesToSearchByMethod(method, data) ==
    IF method \in DOMAIN data.routesByMethod
    THEN data.routesByMethod[method]
    ELSE <<>>

\* data.routesByMethod.get(method) || [], and data.routes for OPTIONS
RoutesToSearch(method, data) ==
    IF method = "OPTIONS"
    THEN data.routes
    ELSE IF method \in DOMAIN data.routesByMethod
    THEN data.routesByMethod[method]
    ELSE <<>>

\* the loop of matchRoute over the routes from position i on
RECURSIVE MatchFrom(_, _, _, _)
MatchFrom(search, i, method, pathname) ==
    IF i > Len(search) THEN NoMatch
    ELSE IF search[i].method /= method /\ method /= "OPTIONS"
    THEN MatchFrom(search, i + 1, method, pathname)
    ELSE IF ~RegexTest(search[i].path, pathname)
    THEN MatchFrom(search, i + 1, method, pathname)
    ELSE Match(search[i])

MatchRouteLast(method, pathname, data) ==
    LET search == RoutesToSearch(method, data)
        rev == [i \in 1..Len(search) |-> search[Len(search) + 1 - i]]
    IN MatchFrom(rev, 1, method, pathname)

\* matchRoute(method, pathname, data)
MatchRoute(method, pathname, data) ==
    MatchFrom(RoutesToSearch(method, data), 1, method, pathname)

\* matchRoute(method, pathname, data) for data an array (the legacy
\* format): routesToSearch is the array itself
MatchRouteArray(method, pathname, routes) ==
    MatchFrom(routes, 1, method, pathname)

\* the positions of the parameters of a route path
ParamPositions(routePath) ==
    {i \in 1..Len(routePath) : routePath[i].param}

\* the params of a match: the segment each parameter captured, by the name of
\* the parameter (both formats decode the capture in the same loop)
MatchParams(result, pathname) ==
    IF ~result.found THEN <<>>
    ELSE [name \in {result.route.path[i].text : i \in ParamPositions(result.route.path)} |->
            pathname[CHOOSE i \in ParamPositions(result.route.path) :
                        result.route.path[i].text = name]]

\* routes.filter((route) => route.regex.test(pathname))
FindMatchingRoutes(pathname, data) ==
    SelectSeq(data.routes, LAMBDA rt : RegexTest(rt.path, pathname))

\* Array.from(new Set(list)): the elements in the order of their first
\* occurrence
RECURSIVE SetOrder(_)
SetOrder(list) ==
    IF list = <<>> THEN <<>>
    ELSE LET init == SetOrder(SubSeq(list, 1, Len(list) - 1))
             x == list[Len(list)]
         IN IF Includes(init, x) THEN init ELSE Append(init, x)

GetAllowedMethodsWithoutOptions(pathname, data) ==
    LET matches == FindMatchingRoutes(pathname, data)
    IN SetOrder([i \in 1..Len(matches) |-> matches[i].method])

\* getAllowedMethods(pathname, data)
GetAllowedMethods(pathname, data) ==
    LET matches == FindMatchingRoutes(pathname, data)
        methods == SetOrder([i \in 1..Len(matches) |-> matches[i].method])
    IN IF Len(methods) > 0 THEN SetOrder(Append(methods, "OPTIONS")) ELSE methods

\* defaultCors: "Access-Control-Allow-Methods" is allowedMethods.join(", ");
\* there is no Allow header among them
DefaultCors(allowedMethods) ==
    [accessControlAllowMethods |-> allowedMethods, allow |-> Missing]

\* new Response(..., { status, headers })
ResponseWith(status, by, headers) ==
    [t |-> "resp", status |-> status, cors |-> TRUE, by |-> <<by, 0>>,
     headers |-> headers]

\* the handler up to the route: matchRoute, getAllowedMethods, the OPTIONS
\* preflight and the 404 (routes without corsHeaders); the steps of a
\* matched request are those of Spec
Lookup(r) ==
    /\ ctl[r].op = "idle"
    /\ \E method \in RequestMethods : \E pathname \in RequestPaths :
          LET data == CompileRoutes(router.routes)
              matchResult == MatchRoute(method, pathname, data)
              allowedMethods == GetAllowedMethods(pathname, data)
              defaultCors == DefaultCors(allowedMethods)
          IN /\ ctx' = [ctx EXCEPT ![r] =
                          [Context(method, NoHeader) EXCEPT !.path = pathname]]
             /\ route' = [route EXCEPT ![r] = matchResult]
             /\ ctl' = [ctl EXCEPT ![r] =
                   IF method = "OPTIONS"
                   THEN IF Len(allowedMethods) = 0
                        THEN Done(ResponseWith(404, "notFound", defaultCors))
                        ELSE Done(ResponseWith(204, "options", defaultCors))
                   ELSE IF ~matchResult.found
                   THEN Done(ResponseWith(404, "notFound", defaultCors))
                   ELSE At("sanitize")]
    /\ trace' = [trace EXCEPT ![r] = <<>>]
    /\ UNCHANGED <<router, stk, index, auth>>

InitMatch ==
    /\ \E routes \in RouteTables :
          router = [middlewares |-> <<>>, terminal |-> "resp", routes |-> routes]
    /\ route = [r \in {"req"} |-> NoMatch]
    /\ ctl = [r \in {"req"} |-> At("idle")]
    /\ stk = [r \in {"req"} |-> <<>>]
    /\ index = [r \in {"req"} |-> <<>>]
    /\ ctx = [r \in {"req"} |-> NoContext]
    /\ auth = [r \in {"req"} |-> NoAuth]
    /\ trace = [r \in {"req"} |-> <<>>]

\* the response has been handed to the caller
LookupOver(r) ==
    /\ ctl[r].op = "done"
    /\ ctl' = [ctl EXCEPT ![r] = At("idle")]
    /\ route' = [route EXCEPT ![r] = NoMatch]
    /\ ctx' = [ctx EXCEPT ![r] = NoContext]
    /\ UNCHANGED <<router, stk, index, auth, trace>>

NextMatch ==
    \/ Lookup("req")
    \/ LookupOver("req")

SpecMatch == InitMatch /\ [][NextMatch]_vars

-----------------------------------------------------------------------------
(* Strings: a string is the sequence of its characters *)

LowerLetters ==
    <<"a", "b", "c", "d", "e", "f", "g", "h", "i", "j", "k", "l", "m",
      "n", "o", "p", "q", "r", "s", "t", "u", "v", "w", "x", "y", "z">>

UpperLetters ==
    <<"A", "B", "C", "D", "E", "F", "G", "H", "I", "J", "K", "L", "M",
      "N", "O", "P", "Q", "R", "S", "T", "U", "V", "W", "X", "Y", "Z">>

Digits == {"0", "1", "2", "3", "4", "5", "6", "7", "8", "9"}

\* the character U+0000
Nul == "NUL"

IsLower(c) == \E i \in 1..26 : LowerLetters[i] = c
IsUpper(c) == \E i \in 1..26 : UpperLetters[i] = c
IsLetter(c) == IsLower(c) \/ IsUpper(c)

LowerChar(c) ==
    IF IsUpper(c) THEN LowerLetters[CHOOSE i \in 1..26 : UpperLetters[i] = c] ELSE c

\* s.toLowerCase()
ToLowerCase(s) == [i \in 1..Len(s) |-> LowerChar(s[i])]

\* sub occurs in s at position i
OccursAt(s, sub, i) ==
    /\ i >= 1
    /\ i + Len(sub) - 1 <= Len(s)
    /\ \A k \in 1..Len(sub) : s[i + k - 1] = sub[k]

\* s.includes(sub)
StrIncludes(s, sub) == \E i \in 1..Len(s) : OccursAt(s, sub, i)

\* s.startsWith(sub)
StartsWith(s, sub) == OccursAt(s, sub, 1)

Greatest(S) == CHOOSE i \in S : \A j \in S : j <= i

\* printable ASCII, U+0020 to U+007E (GRAVE is the grave accent U+0060)
Printable ==
    <<" ", "!", "\"", "#", "$", "%", "&", "'", "(", ")", "*", "+", ",", "-", ".", "/",
      "0", "1", "2", "3", "4", "5", "6", "7", "8", "9", ":", ";", "<", "=", ">", "?",
      "@", "A", "B", "C", "D", "E", "F", "G", "H", "I", "J", "K", "L", "M", "N", "O",
      "P", "Q", "R", "S", "T", "U", "V", "W", "X", "Y", "Z", "[", "\\", "]", "^", "_",
      "GRAVE", "a", "b", "c", "d", "e", "f", "g", "h", "i", "j", "k", "l", "m", "n", "o",
      "p", "q", "r", "s", "t", "u", "v", "w", "x", "y", "z", "{", "|", "}", "~">>

\* the control characters U+0000 to U+001F
Controls ==
    <<"NUL", "SOH", "STX", "ETX", "EOT", "ENQ", "ACK", "BEL", "BS", "TAB", "LF",
      "VT", "FF", "CR", "SO", "SI", "DLE", "DC1", "DC2", "DC3", "DC4", "NAK", "SYN",
      "ETB", "CAN", "EM", "SUB", "ESC", "FS", "GS", "RS", "US">>

\* the character with code n, n < 128
CharOf(n) ==
    IF n < 32 THEN Controls[n + 1]
    ELSE IF n = 127 THEN "DEL"
    ELSE Printable[n - 31]

HexDigits ==
    <<"0", "1", "2", "3", "4", "5", "6", "7", "8", "9", "a", "b", "c", "d", "e", "f">>

IsHex(c) == \E i \in 1..16 : HexDigits[i] = LowerChar(c)
HexVal(c) == (CHOOSE i \in 1..16 : HexDigits[i] = LowerChar(c)) - 1

\* decodeURIComponent(s) from position i on: [throws, value]. An escape is %
\* and two hex digits; a byte of 0x80 and above that does not start a
\* well-formed UTF-8 sequence is a URIError (multi-byte sequences are outside
\* the inputs drawn here)
RECURSIVE DecodeFrom(_, _)
DecodeFrom(s, i) ==
    LET escapes == {j \in i..Len(s) : s[j] = "%"}
    IN IF escapes = {} THEN [throws |-> FALSE, value |-> SubSeq(s, i, Len(s))]
       ELSE LET j == CHOOSE j \in escapes : \A q \in escapes : j <= q
            IN IF j + 2 > Len(s) \/ ~IsHex(s[j + 1]) \/ ~IsHex(s[j + 2])
               THEN [throws |-> TRUE, value |-> <<>>]
               ELSE LET byte == 16 * HexVal(s[j + 1]) + HexVal(s[j + 2])
                        rest == DecodeFrom(s, j + 3)
                    IN IF byte >= 128 \/ rest.throws
                       THEN [throws |-> TRUE, value |-> <<>>]
                       ELSE [throws |-> FALSE,
                             value |-> SubSeq(s, i, j - 1) \o <<CharOf(byte)>> \o rest.value]

DecodeURIComponent(s) == DecodeFrom(s, 1)

-----------------------------------------------------------------------------
(* Route paths: compileRoute and the extraction of parameters (SpecCompile) *)

MAX_PATH_PARAM_LENGTH == 200

\* [a-zA-Z_]
ParamNameStart(c) == IsLetter(c) \/ c = "_"

\* [a-zA-Z0-9_]
ParamNameChar(c) == ParamNameStart(c) \/ c \in Digits

\* the character class of SAFE_PATH_PARAM_PATTERN, [a-zA-Z0-9_%.='\-]
SafeParamChar(c) == IsLetter(c) \/ c \in Digits \/ c \in {"_", "%", ".", "=", "'", "-"}

\* PATH_PARAM_NAME_REGEX.test(name), ^[a-zA-Z_][a-zA-Z0-9_]*$
IsValidParamName(name) ==
    /\ name /= <<>>
    /\ ParamNameStart(name[1])
    /\ \A k \in 1..Len(name) : ParamNameChar(name[k])

\* validatePathSafety(path) throws
ValidatePathSafetyThrows(path) ==
    \/ StrIncludes(path, <<".", ".">>)
    \/ StrIncludes(ToLowerCase(path), <<"%", "2", "e", "%", "2", "e">>)
    \/ StrIncludes(path, <<Nul>>)

\* the matches of /:([a-zA-Z_][a-zA-Z0-9_]*)/g in path from position i on,
\* left to right, each the positions of its colon and of the end of its name
RECURSIVE ParamMatches(_, _)
ParamMatches(path, i) ==
    IF i > Len(path) THEN <<>>
    ELSE IF path[i] = ":" /\ i + 1 <= Len(path) /\ ParamNameStart(path[i + 1])
    THEN LET to == Greatest({e \in (i + 1)..Len(path) :
                                \A k \in (i + 1)..e : ParamNameChar(path[k])})
         IN <<[from |-> i, to |-> to]>> \o ParamMatches(path, to + 1)
    ELSE ParamMatches(path, i + 1)

\* the loop of extractParamNames over the matches from the k-th on
RECURSIVE ExtractFrom(_, _, _, _)
ExtractFrom(path, matches, k, params) ==
    IF k > Len(matches) THEN [throws |-> FALSE, params |-> params]
    ELSE LET paramName == SubSeq(path, matches[k].from + 1, matches[k].to)
         IN IF ~IsValidParamName(paramName) \/ Includes(params, paramName)
            THEN [throws |-> TRUE, params |-> <<>>]
            ELSE ExtractFrom(path, matches, k + 1, Append(params, paramName))

DuplicatesAllowed(path) ==
    LET matches == ParamMatches(path, 1)
    IN [throws |-> FALSE,
        params |-> [k \in 1..Len(matches) |->
                       SubSeq(path, matches[k].from + 1, matches[k].to)]]

ExtractParamNames(path) == ExtractFrom(path, ParamMatches(path, 1), 1, <<>>)

\* the regular expression ^safePattern$: one element for each character of the
\* path outside the parameters (a dot matches any character) and one capture
\* group for each parameter
RECURSIVE SafePattern(_, _, _)
SafePattern(path, matches, i) ==
    IF i > Len(path) THEN <<>>
    ELSE IF \E k \in 1..Len(matches) : matches[k].from = i
    THEN LET k == CHOOSE k \in 1..Len(matches) : matches[k].from = i
         IN <<[kind |-> "group", c |-> ""]>> \o SafePattern(path, matches, matches[k].to + 1)
    ELSE <<[kind |-> IF path[i] = "." THEN "any" ELSE "char", c |-> path[i]]>>
             \o SafePattern(path, matches, i + 1)

NoCompiled == [regex |-> <<>>, params |-> <<>>, compiled |-> FALSE]

\* compileRoute(path): [throws, regex, params]
CompileRoute(path) ==
    IF ValidatePathSafetyThrows(path) THEN [throws |-> TRUE, compiled |-> NoCompiled]
    ELSE LET extracted == ExtractParamNames(path)
         IN IF extracted.throws THEN [throws |-> TRUE, compiled |-> NoCompiled]
            ELSE [throws |-> FALSE,
                  compiled |-> [regex |-> SafePattern(path, ParamMatches(path, 1), 1),
                                params |-> extracted.params,
                                compiled |-> TRUE]]

\* regex.exec(s) from element k of the regex and position j of s: a capture
\* group takes the longest run of safe characters, of 1 to 200, that lets the
\* rest match
RECURSIVE ExecFrom(_, _, _, _)
ExecFrom(regex, k, s, j) ==
    IF k > Len(regex)
    THEN [ok |-> j = Len(s) + 1, groups |-> <<>>]
    ELSE IF regex[k].kind = "group"
    THEN LET unsafe == {q \in j..Len(s) : ~SafeParamChar(s[q])}
             stop == IF unsafe = {} THEN Len(s) + 1
                     ELSE CHOOSE q \in unsafe : \A p \in unsafe : q <= p
             most == IF stop - j < MAX_PATH_PARAM_LENGTH
                     THEN stop - j ELSE MAX_PATH_PARAM_LENGTH
             runs == {n \in 1..most : ExecFrom(regex, k + 1, s, j + n).ok}
         IN IF runs = {} THEN [ok |-> FALSE, groups |-> <<>>]
            ELSE LET n == Greatest(runs)
                     rest == ExecFrom(regex, k + 1, s, j + n)
                 IN [ok |-> TRUE, groups |-> <<SubSeq(s, j, j + n - 1)>> \o rest.groups]
    ELSE IF j <= Len(s) /\ (regex[k].kind = "any" \/ regex[k].c = s[j])
    THEN ExecFrom(regex, k + 1, s, j + 1)
    ELSE [ok |-> FALSE, groups |-> <<>>]

RegexExec(regex, s) == ExecFrom(regex, 1, s, 1)

\* decodeURIComponent(raw), the raw value if decoding fails
DecodeOrRaw(raw) ==
    LET decoded == DecodeURIComponent(raw)
    IN IF decoded.throws THEN raw ELSE decoded.value

\* the parameters matchRoute extracts for a matching route: name to value
ExtractParams(compiled, groups) ==
    [name \in {compiled.params[i] : i \in 1..Len(compiled.params)} |->
        DecodeOrRaw(groups[CHOOSE i \in 1..Len(compiled.params) : compiled.params[i] = name])]

\* the segments route paths are made of; kind and name say what the segment
\* declares, the model reads only the text
Segment(text, kind, name) == [text |-> text, kind |-> kind, name |-> name]

PathSegments ==
    { Segment(<<"u">>, "literal", <<>>),
      Segment(<<"v", ".", "w">>, "literal", <<>>),
      Segment(<<":", "a">>, "param", <<"a">>),
      Segment(<<":", "_", "b", "1">>, "param", <<"_", "b", "1">>),
      Segment(<<":", "1", "i", "d">>, "malformed", <<"1", "i", "d">>),
      Segment(<<":", "a", "-", "i", "d">>, "malformed", <<"a", "-", "i", "d">>),
      Segment(<<".", ".">>, "traversal", <<>>),
      Segment(<<"%", "2", "e", "%", "2", "E">>, "encoded", <<>>),
      Segment(<<"u", Nul>>, "nul", <<>>) }

\* the path of the segments: each one behind a slash
RECURSIVE FullPath(_)
FullPath(segments) ==
    IF segments = <<>> THEN <<>>
    ELSE <<"/">> \o Head(segments).text \o FullPath(Tail(segments))

\* the tokens requests put in the place of a parameter
PathTokens ==
    { <<"7">>, <<"x", "_", "1">>, <<"a", ".", "b">>, <<"a", "~", "b">>, <<"%", "4", "1">> }

\* the request path of a route: token tokens[i] in the place of the i-th
\* parameter segment counted from n on
RECURSIVE BuildPath(_, _, _)
BuildPath(segments, tokens, n) ==
    IF segments = <<>> THEN <<>>
    ELSE IF Head(segments).kind = "param"
    THEN <<"/">> \o tokens[n] \o BuildPath(Tail(segments), tokens, n + 1)
    ELSE <<"/">> \o Head(segments).text \o BuildPath(Tail(segments), tokens, n)

ParamSegments(segments) == SelectSeq(segments, LAMBDA seg : seg.kind = "param")

InitCompile ==
    /\ \E segments \in SeqsUpTo(PathSegments, MaxSegments) :
          /\ segments /= <<>>
          /\ router = [middlewares |-> <<>>, terminal |-> "resp",
                       segments |-> segments, fullPath |-> FullPath(segments)]
    /\ route = [r \in {"req"} |-> NoCompiled]
    /\ ctl = [r \in {"req"} |-> At("config")]
    /\ stk = [r \in {"req"} |-> <<>>]
    /\ index = [r \in {"req"} |-> <<>>]
    /\ ctx = [r \in {"req"} |-> NoContext]
    /\ auth = [r \in {"req"} |-> NoAuth]
    /\ trace = [r \in {"req"} |-> <<>>]

\* compileRoutes compiles the path of the route
CompileRoutePath(r) ==
    /\ ctl[r].op = "config"
    /\ LET result == CompileRoute(router.fullPath)
       IN /\ route' = [route EXCEPT ![r] = result.compiled]
          /\ ctl' = [ctl EXCEPT ![r] =
                        IF result.throws THEN At("buildFailed") ELSE At("idle")]
    /\ UNCHANGED <<router, stk, index, ctx, auth, trace>>

\* matchRoute on a request for the route, with tokens for its parameters
MatchPath(r) ==
    /\ ctl[r].op = "idle"
    /\ \E tokens \in [1..Len(ParamSegments(router.segments)) -> PathTokens] :
          LET pathname == BuildPath(router.segments, tokens, 1)
              match == RegexExec(route[r].regex, pathname)
          IN /\ ctx' = [ctx EXCEPT ![r] =
                          [NoContext EXCEPT !.path = pathname,
                                            !.params = IF match.ok
                                                       THEN ExtractParams(route[r], match.groups)
                                                       ELSE <<>>]]
             /\ ctl' = [ctl EXCEPT ![r] =
                           IF match.ok THEN At("matched") ELSE At("unmatched")]
    /\ UNCHANGED <<router, route, stk, index, auth, trace>>

\* the match has been handed to the caller
MatchOver(r) ==
    /\ ctl[r].op \in {"matched", "unmatched"}
    /\ ctl' = [ctl EXCEPT ![r] = At("idle")]
    /\ ctx' = [ctx EXCEPT ![r] = NoContext]
    /\ UNCHANGED <<router, route, stk, index, auth, trace>>

NextCompile ==
    \/ CompileRoutePath("req")
    \/ MatchPath("req")
    \/ MatchOver("req")

SpecCompile == InitCompile /\ [][NextCompile]_vars

-----------------------------------------------------------------------------
(* Query strings: url.searchParams and parseQuerySafely (SpecQuery) *)

\* the pieces of s between the separators, from position i on
RECURSIVE SplitFrom(_, _, _)
SplitFrom(s, sep, i) ==
    LET seps == {j \in i..Len(s) : s[j] = sep}
    IN IF seps = {} THEN <<SubSeq(s, i, Len(s))>>
       ELSE LET j == CHOOSE j \in seps : \A q \in seps : j <= q
            IN <<SubSeq(s, i, j - 1)>> \o SplitFrom(s, sep, j + 1)

\* percent-decoding of the URL parser: an escape that is not % and two hex
\* digits stays as it is; a byte of 0x80 and above decodes to U+FFFD
\* (multi-byte sequences are outside the inputs drawn here)
RECURSIVE PercentDecode(_, _)
PercentDecode(s, i) ==
    IF i > Len(s) THEN <<>>
    ELSE IF s[i] = "%" /\ i + 2 <= Len(s) /\ IsHex(s[i + 1]) /\ IsHex(s[i + 2])
    THEN LET byte == 16 * HexVal(s[i + 1]) + HexVal(s[i + 2])
         IN <<IF byte >= 128 THEN "U+FFFD" ELSE CharOf(byte)>> \o PercentDecode(s, i + 3)
    ELSE <<IF s[i] = "+" THEN " " ELSE s[i]>> \o PercentDecode(s, i + 1)

\* one name=value piece of the query string: split at the first "="
SearchParam(piece) ==
    LET eqs == {j \in 1..Len(piece) : piece[j] = "="}
        at == IF eqs = {} THEN Len(piece) + 1
              ELSE CHOOSE j \in eqs : \A q \in eqs : j <= q
    IN [key |-> PercentDecode(SubSeq(piece, 1, at - 1), 1),
        value |-> PercentDecode(SubSeq(piece, at + 1, Len(piece)), 1)]

\* url.searchParams: the list of the pairs of the query string, in order
SearchParams(search) ==
    LET pieces == SelectSeq(SplitFrom(search, "&", 1), LAMBDA piece : piece /= <<>>)
    IN [i \in 1..Len(pieces) |-> SearchParam(pieces[i])]

ProtoKey == <<"_", "_", "p", "r", "o", "t", "o", "_", "_">>
ConstructorKey == <<"c", "o", "n", "s", "t", "r", "u", "c", "t", "o", "r">>
PrototypeKey == <<"p", "r", "o", "t", "o", "t", "y", "p", "e">>
ToStringKey == <<"t", "o", "S", "t", "r", "i", "n", "g">>

DANGEROUS_QUERY_KEYS == {ProtoKey, ConstructorKey, PrototypeKey}

\* key in query, for an object that inherits from Object.prototype
KeyInWithPrototype(query, key) ==
    key \in DOMAIN query \/ key \in {ProtoKey, ConstructorKey, ToStringKey}

\* key in query, for query = Object.create(null): its own keys only
KeyIn(query, key) == key \in DOMAIN query

\* query[key] = value
SetKey(query, key, value) ==
    [k \in DOMAIN query \cup {key} |-> IF k = key THEN value ELSE query[k]]

\* the callback of searchParams.forEach in parseQuerySafely
QueryEntry(query, key, value) ==
    IF KeyIn(query, key) THEN query
    ELSE IF key \in DANGEROUS_QUERY_KEYS THEN query
    ELSE IF StrIncludes(key, <<"[">>) \/ StrIncludes(key, <<"]">>) THEN query
    ELSE IF StartsWith(key, <<"_">>) THEN query
    ELSE SetKey(query, key, value)

RECURSIVE ParseQueryFrom(_, _, _)
ParseQueryFrom(searchParams, i, query) ==
    IF i > Len(searchParams) THEN query
    ELSE ParseQueryFrom(searchParams, i + 1,
                        QueryEntry(query, searchParams[i].key, searchParams[i].value))

\* parseQuerySafely(searchParams): the mapping from the keys to the values;
\* Object.create(null) is the mapping without keys
ParseQuerySafely(searchParams) == ParseQueryFrom(searchParams, 1, <<>>)

\* the name=value pieces query strings are made of
QueryPieces ==
    { ProtoKey \o <<"=", "x">>,
      ConstructorKey \o <<"=", "1">>,
      PrototypeKey \o <<"=", "2">>,
      ToStringKey \o <<"=", "1">>,
      <<"a", "=", "1">>,
      <<"a", "=", "2">>,
      <<"b", "=", "1", "+", "2">>,
      <<"b">>,
      <<"a", "%", "5", "B", "0", "%", "5", "D", "=", "1">>,
      <<"b", "]", "=", "1">>,
      <<"_", "a", "=", "1">>,
      <<"%", "5", "f", "b", "=", "2">> }

\* the pieces joined by "&"
RECURSIVE JoinPieces(_)
JoinPieces(pieces) ==
    IF pieces = <<>> THEN <<>>
    ELSE IF Len(pieces) = 1 THEN Head(pieces)
    ELSE Head(pieces) \o <<"&">> \o JoinPieces(Tail(pieces))

InitQuery ==
    /\ router = [middlewares |-> <<>>, terminal |-> "resp"]
    /\ route = [r \in {"req"} |-> PublicRoute(<<>>)]
    /\ ctl = [r \in {"req"} |-> At("parseQuery")]
    /\ stk = [r \in {"req"} |-> <<>>]
    /\ index = [r \in {"req"} |-> <<>>]
    /\ \E pieces \in SeqsUpTo(QueryPieces, MaxPairs) :
          ctx = [r \in {"req"} |-> [NoContext EXCEPT !.search = JoinPieces(pieces)]]
    /\ auth = [r \in {"req"} |-> NoAuth]
    /\ trace = [r \in {"req"} |-> <<>>]

\* const query = parseQuerySafely(url.searchParams)
ParseQuery(r) ==
    /\ ctl[r].op = "parseQuery"
    /\ ctx' = [ctx EXCEPT ![r].query = ParseQuerySafely(SearchParams(ctx[r].search))]
    /\ ctl' = [ctl EXCEPT ![r] = At("query")]
    /\ UNCHANGED <<router, route, stk, index, auth, trace>>

NextQuery == ParseQuery("req")

SpecQuery == InitQuery /\ [][NextQuery]_vars

-----------------------------------------------------------------------------
(* Error messages: sanitizeErrorMessage (SpecMessage) *)

MAX_ERROR_MESSAGE_LENGTH == 500

\* the concatenation of parts[lo], ..., parts[hi]
RECURSIVE ConcatRange(_, _, _)
ConcatRange(parts, lo, hi) ==
    IF lo > hi THEN <<>>
    ELSE IF lo = hi THEN parts[lo]
    ELSE LET mid == (lo + hi) \div 2
         IN ConcatRange(parts, lo, mid) \o ConcatRange(parts, mid + 1, hi)

\* s with each of its characters replaced by a string
MapChars(s, Op(_)) == ConcatRange([i \in 1..Len(s) |-> Op(s[i])], 1, Len(s))

\* message.normalize("NFKC"), for the compatibility characters of the
\* messages drawn here: the fullwidth forms U+FF1C (<), U+FF1A (:), U+FF4A (j)
Nfkc(c) ==
    CASE c = "U+FF1C" -> "<"
      [] c = "U+FF1A" -> ":"
      [] c = "U+FF4A" -> "j"
      [] OTHER -> c

Normalize(s) == [i \in 1..Len(s) |-> Nfkc(s[i])]

\* code 0x00 to 0x1f or 0x7f to 0x9f (of the latter: DEL, U+0085, U+009F)
IsControlCharacter(c) ==
    \/ \E i \in 1..32 : Controls[i] = c
    \/ c \in {"DEL", "U+0085", "U+009F"}

StripControlCharacters(s) == SelectSeq(s, LAMBDA c : ~IsControlCharacter(c))

\* the characters U+200B to U+200D and U+FEFF
ZeroWidth == {"U+200B", "U+200C", "U+200D", "U+FEFF"}

StripZeroWidth(s) == SelectSeq(s, LAMBDA c : c \notin ZeroWidth)

\* the positions where s.replace(/token/gi, ...) finds its matches, from
\* position i on: left to right, a match begins after the end of the
\* previous one; lower is s in lower case
RECURSIVE MatchStarts(_, _, _)
MatchStarts(lower, token, i) ==
    LET occurrences == {j \in i..Len(lower) : OccursAt(lower, token, j)}
    IN IF occurrences = {} THEN {}
       ELSE LET j == CHOOSE j \in occurrences : \A q \in occurrences : j <= q
            IN {j} \cup MatchStarts(lower, token, j + Len(token))

\* s.replace(/token/gi, ""): one pass over s
RemoveAll(s, token) ==
    LET lower == ToLowerCase(s)
        starts == MatchStarts(lower, token, 1)
        covered(i) == \E j \in starts : j <= i /\ i < j + Len(token)
    IN ConcatRange([i \in 1..Len(s) |-> IF covered(i) THEN <<>> ELSE <<s[i]>>],
                   1, Len(s))

\* s.replace(/c/g, replacement) for a character c
ReplaceChar(s, c, replacement) ==
    MapChars(s, LAMBDA d : IF d = c THEN replacement ELSE <<d>>)

JavascriptScheme == <<"j", "a", "v", "a", "s", "c", "r", "i", "p", "t", ":">>
DataScheme == <<"d", "a", "t", "a", ":">>
VbscriptScheme == <<"v", "b", "s", "c", "r", "i", "p", "t", ":">>
FileScheme == <<"f", "i", "l", "e", ":">>

\* Step 4: the four replacements, one after the other
RemoveSchemes(s) ==
    RemoveAll(RemoveAll(RemoveAll(RemoveAll(s, JavascriptScheme), DataScheme),
                        VbscriptScheme), FileScheme)

\* Step 5: the six replacements, one after the other
EscapeHtml(s) ==
    LET amp == ReplaceChar(s, "&", <<"&", "a", "m", "p", ";">>)
        lt == ReplaceChar(amp, "<", <<"&", "l", "t", ";">>)
        gt == ReplaceChar(lt, ">", <<"&", "g", "t", ";">>)
        quot == ReplaceChar(gt, "\"", <<"&", "q", "u", "o", "t", ";">>)
        apos == ReplaceChar(quot, "'", <<"&", "#", "x", "2", "7", ";">>)
    IN ReplaceChar(apos, "/", <<"&", "#", "x", "2", "F", ";">>)

\* s.slice(0, n)
Slice(s, n) == SubSeq(s, 1, IF Len(s) < n THEN Len(s) ELSE n)

InternalServerError ==
    <<"I", "n", "t", "e", "r", "n", "a", "l", " ",
      "s", "e", "r", "v", "e", "r", " ", "e", "r", "r", "o", "r">>

\* a value given as an error message: a string, or anything else
StringMessage(chars) == [isString |-> TRUE, chars |-> chars]
NonStringMessages ==
    {[isString |-> FALSE, chars |-> <<>>],
     [isString |-> FALSE, chars |-> <<"<", "4", "2", ">">>]}

\* sanitizeErrorMessage(message)
SanitizeErrorMessage(message) ==
    IF ~message.isString THEN InternalServerError
    ELSE Slice(EscapeHtml(RemoveSchemes(StripZeroWidth(
                  StripControlCharacters(Normalize(message.chars))))),
               MAX_ERROR_MESSAGE_LENGTH)

\* the pieces error messages are made of
MessagePieces ==
    { <<"<">>, <<">">>, <<"\"">>, <<"'">>, <<"&">>, <<"/">>, <<"x">>,
      <<"J", "a", "v", "a", "S", "c", "r", "i", "p", "t", ":">>,
      <<"j", "a", "v", "a">>,
      <<"s", "c", "r", "i", "p", "t", ":">>,
      <<"D", "A", "T", "A", ":">>,
      <<"v", "b">>,
      <<"f", "i", "l", "e", ":">>,
      <<"U+200B">>, <<"LF">>, <<"U+FF1C">>, <<"U+FF1A">> }

\* a message of n characters
Filler(n) == [i \in 1..n |-> "a"]

\* the messages: up to MaxPieces pieces, or a long message ending in a piece
Messages ==
    {StringMessage(ConcatRange(pieces, 1, Len(pieces))) :
        pieces \in SeqsUpTo(MessagePieces, MaxPieces)}
    \cup {StringMessage(Filler(MAX_ERROR_MESSAGE_LENGTH - 3) \o piece) :
             piece \in MessagePieces}
    \cup NonStringMessages

\* new Response(JSON.stringify({ error }), { status, headers: corsHeaders })
ErrorBody(status, error) ==
    [t |-> "resp", status |-> status, cors |-> TRUE, by |-> HandlerName,
     body |-> [error |-> error]]

InitMessage ==
    /\ router = [middlewares |-> <<>>, terminal |-> "resp"]
    /\ route = [r \in {"req"} |-> PublicRoute(<<>>)]
    /\ ctl = [r \in {"req"} |-> At("catch")]
    /\ stk = [r \in {"req"} |-> <<>>]
    /\ index = [r \in {"req"} |-> <<>>]
    /\ ctx = [r \in {"req"} |-> NoContext]
    /\ auth = [r \in {"req"} |-> NoAuth]
    /\ \E message \in Messages :
          trace = [r \in {"req"} |-> <<Event(HandlerName, "threw", 0, message)>>]

\* the catch of executeHandler for an error with this message
CatchError(r) ==
    /\ ctl[r].op = "catch"
    /\ ctl' = [ctl EXCEPT ![r] =
                  Done(ErrorBody(500, SanitizeErrorMessage(trace[r][1].v)))]
    /\ UNCHANGED <<router, route, stk, index, ctx, auth, trace>>

NextMessage == CatchError("req")

SpecMessage == InitMessage /\ [][NextMessage]_vars

-----------------------------------------------------------------------------
(* SpecData: one router with one route, and requests with their path
   parameters, Content-Type, body and data client *)

SanitizePathParamRawOnly(value) ==
    IF Len(value) > MAX_PATH_PARAM_LENGTH THEN [throws |-> TRUE, value |-> <<>>]
    ELSE IF \/ StrIncludes(ToLowerCase(value), <<"%", "2", "e", "%", "2", "e">>)
            \/ StrIncludes(ToLowerCase(value), <<"%", "2", "f">>)
            \/ StrIncludes(ToLowerCase(value), <<"%", "5", "c">>)
    THEN [throws |-> TRUE, value |-> <<>>]
    ELSE DecodeURIComponent(value)

\* sanitizePathParam(value): [throws, value]
SanitizePathParam(value) ==
    IF Len(value) > MAX_PATH_PARAM_LENGTH THEN [throws |-> TRUE, value |-> <<>>]
    ELSE IF \/ StrIncludes(ToLowerCase(value), <<"%", "2", "e", "%", "2", "e">>)
            \/ StrIncludes(ToLowerCase(value), <<"%", "2", "f">>)
            \/ StrIncludes(ToLowerCase(value), <<"%", "5", "c">>)
    THEN [throws |-> TRUE, value |-> <<>>]
    ELSE LET decoded == DecodeURIComponent(value)
         IN IF decoded.throws THEN [throws |-> TRUE, value |-> <<>>]
            ELSE IF Len(decoded.value) > MAX_PATH_PARAM_LENGTH
            THEN [throws |-> TRUE, value |-> <<>>]
            ELSE IF \/ StrIncludes(decoded.value, <<".", ".">>)
                    \/ StrIncludes(decoded.value, <<"/">>)
                    \/ StrIncludes(decoded.value, <<"\\">>)
            THEN [throws |-> TRUE, value |-> <<>>]
            ELSE IF StrIncludes(decoded.value, <<Nul>>)
            THEN [throws |-> TRUE, value |-> <<>>]
            ELSE [throws |-> FALSE, value |-> decoded.value]

\* the loop over Object.entries(params): the entries are in the order of the
\* parameters of the route
SanitizeEntries(names, params) ==
    [throws |-> \E i \in 1..Len(names) : SanitizePathParam(params[names[i]]).throws,
     sanitizedParams |->
        [name \in {names[i] : i \in 1..Len(names)} |->
            SanitizePathParam(params[name]).value]]

ApplicationJson ==
    <<"a", "p", "p", "l", "i", "c", "a", "t", "i", "o", "n", "/", "j", "s",
      "o", "n">>

FormUrlEncoded ==
    <<"a", "p", "p", "l", "i", "c", "a", "t", "i", "o", "n", "/", "x", "-",
      "w", "w", "w", "-", "f", "o", "r", "m", "-", "u", "r", "l", "e", "n",
      "c", "o", "d", "e", "d">>

MultipartFormData ==
    <<"m", "u", "l", "t", "i", "p", "a", "r", "t", "/", "f", "o", "r", "m",
      "-", "d", "a", "t", "a">>

TextPlain ==
    <<"t", "e", "x", "t", "/", "p", "l", "a", "i", "n">>

ApplicationXml ==
    <<"a", "p", "p", "l", "i", "c", "a", "t", "i", "o", "n", "/", "x", "m",
      "l">>

JsonWithCharset ==
    ApplicationJson \o
    <<";", " ", "c", "h", "a", "r", "s", "e", "t", "=", "u", "t", "f", "-",
      "8">>

\* the Content-Type header of the requests: none, or one of these
ContentTypeHeaders ==
    {Missing, Given(ApplicationJson), Given(JsonWithCharset), Given(TextPlain),
     Given(ApplicationXml)}

\* the body of the request: what parsing and the schema make of it
Bodies == {"valid", "invalid", "malformed"}

\* requestSchema.body: none, one schema, or schemas by content type
NoBodySchema == [kind |-> "none", types |-> <<>>]
SingleSchema == [kind |-> "single", types |-> <<>>]
MultiSchema == [kind |-> "multi", types |-> <<ApplicationJson, MultipartFormData>>]

\* parseBodyByContentType(req, contentType) throws an error
ParseBodyThrows(contentType, body) ==
    IF StrIncludes(contentType, ApplicationJson) THEN body = "malformed"
    ELSE IF StrIncludes(contentType, FormUrlEncoded) THEN FALSE
    ELSE IF StrIncludes(contentType, MultipartFormData) THEN body = "malformed"
    ELSE IF StrIncludes(contentType, TextPlain) THEN FALSE
    ELSE TRUE

\* new Response(JSON.stringify({ error, details }), { status }): no CORS
\* headers yet
BodyErrorResponse(status, error, details) ==
    [t |-> "resp", status |-> status, cors |-> FALSE, by |-> <<error, 0>>,
     details |-> details]

Returned == [t |-> "returned", v |-> NoVal]
ThrownResponse(v) == [t |-> "response", v |-> v]
ThrownError == [t |-> "error", v |-> NoVal]

\* const rawBody = await parseBodyByContentType(...); validateDTO(rawBody, schema)
ParseAndValidate(contentType, body) ==
    IF ParseBodyThrows(contentType, body) THEN ThrownError
    ELSE IF body /= "valid"
    THEN ThrownResponse(BodyErrorResponse(400, "Validation failed", TRUE))
    ELSE Returned

\* parseAndValidateBody(req, bodySchema, contentType, supportedContentTypes)
ParseAndValidateBody(body, bodySchema, contentType, supportedContentTypes) ==
    IF bodySchema.kind = "multi"
    THEN IF \E i \in 1..Len(bodySchema.types) :
               StrIncludes(contentType, bodySchema.types[i])
         THEN ParseAndValidate(contentType, body)
         ELSE ThrownResponse(BodyErrorResponse(415, "Unsupported Media Type", FALSE))
    ELSE IF /\ Len(supportedContentTypes) > 0
            /\ ~\E i \in 1..Len(supportedContentTypes) :
                   StrIncludes(contentType, supportedContentTypes[i])
    THEN ThrownResponse(BodyErrorResponse(415, "Unsupported Media Type", FALSE))
    ELSE ParseAndValidate(contentType, body)

\* supportedContentTypes: route.supportedContentTypes ?? ["application/json"]
SupportedOrDefault(declared) ==
    IF declared.has THEN declared.val ELSE <<ApplicationJson>>

\* the database part of the configuration: config.database
\* .enableTransactionPooler, whether config.container brings its own
\* getOrCreateDbClient (one that works or one that throws), and whether the
\* connection string is in the environment
DatabaseConfigs ==
    [enableTransactionPooler : BOOLEAN,
     getOrCreateDbClient : {"none", "works", "throws"},
     connectionString : BOOLEAN]

\* a configuration without database
NoDatabase ==
    [enableTransactionPooler |-> FALSE, getOrCreateDbClient |-> "none",
     connectionString |-> FALSE]

DatabaseAssumed(database) == TRUE

\* ensureTransactionPoolerClient, then
\* typeof container.getOrCreateDbClient === "function"
DatabaseEnabled(database) ==
    database.getOrCreateDbClient /= "none" \/ database.enableTransactionPooler

\* container.getOrCreateDbClient() throws: the accessor of the container, or
\* the one ensureTransactionPoolerClient installed, which needs the
\* connection string unless it has the client already
GetOrCreateDbClientThrows(database, cachedDb) ==
    IF database.getOrCreateDbClient /= "none"
    THEN database.getOrCreateDbClient = "throws"
    ELSE ~cachedDb /\ ~database.connectionString

\* the declared routes; those with a body schema are without database, those
\* without database are on a router without database
DataRouteDefs ==
    [segments : {<<Segment(<<"u">>, "literal", <<>>), Segment(<<":", "a">>, "param", <<"a">>)>>,
                 <<Segment(<<":", "a">>, "param", <<"a">>),
                   Segment(<<":", "_", "b", "1">>, "param", <<"_", "b", "1">>)>>},
     method : {"POST"},
     authRequired : BOOLEAN,
     requestSchema : {NoBodySchema, SingleSchema, MultiSchema},
     supportedContentTypes : {Missing, Given(<<>>), Given(<<TextPlain>>)},
     useDatabase : BOOLEAN]

\* the route as defineRouter and compileRoutes make it
CompiledDataRoute(def) ==
    LET compiled == CompileRoute(FullPath(def.segments)).compiled
    IN [method |-> def.method,
        authRequired |-> def.authRequired,
        allowedRoles |-> Missing,
        authentication |-> NoAuthentication,
        middlewares |-> <<>>,
        regex |-> compiled.regex,
        params |-> compiled.params,
        requestSchema |-> def.requestSchema,
        supportedContentTypes |-> SupportedOrDefault(def.supportedContentTypes),
        useDatabase |-> def.useDatabase]

\* the values the requests put in the place of a parameter
CapturedTokens ==
    { <<"7">>, <<"a", ".", "b">>, <<".", ".">>,
      <<"%", "2", "e", "%", "2", "E">>, <<"%", "2", "F">>, <<"%", "5", "c">>,
      <<"%", "0", "0">>, <<"%", "z", "z">>, <<"%", "2", "5", "4", "1">>,
      <<"a", "~", "b">>, Filler(MAX_PATH_PARAM_LENGTH) }

InitData ==
    /\ \E def \in DataRouteDefs : \E database \in DatabaseConfigs :
          /\ def.requestSchema.kind /= "single" => def.supportedContentTypes = Missing
          /\ def.useDatabase => def.requestSchema = NoBodySchema
          /\ ~def.useDatabase => database = NoDatabase
          /\ router = [middlewares |-> Named("G", <<"pass">>), terminal |-> "resp",
                       route |-> def, database |-> database, cachedDb |-> FALSE]
    /\ route = [r \in {"req"} |-> PublicRoute(<<>>)]
    /\ ctl = [r \in {"req"} |-> At("config")]
    /\ stk = [r \in {"req"} |-> <<>>]
    /\ index = [r \in {"req"} |-> <<>>]
    /\ ctx = [r \in {"req"} |-> NoContext]
    /\ auth = [r \in {"req"} |-> NoAuth]
    /\ trace = [r \in {"req"} |-> <<>>]

\* defineRouter(config): it throws for a route with useDatabase when the
\* container has no getOrCreateDbClient, and when the path does not compile
DefineDataRouter(r) ==
    /\ ctl[r].op = "config"
    /\ ctl' = [ctl EXCEPT ![r] =
                 IF \/ router.route.useDatabase /\ ~DatabaseEnabled(router.database)
                    \/ CompileRoute(FullPath(router.route.segments)).throws
                 THEN At("buildFailed")
                 ELSE At("idle")]
    /\ UNCHANGED <<router, route, stk, index, ctx, auth, trace>>

\* a request for the route, with tokens for its parameters: matchRoute
ReceiveData(r) ==
    /\ ctl[r].op = "idle"
    /\ \E tokens \in [1..Len(ParamSegments(router.route.segments)) -> CapturedTokens] :
          LET pathname == BuildPath(router.route.segments, tokens, 1)
              compiled == CompiledDataRoute(router.route)
              match == RegexExec(compiled.regex, pathname)
          IN IF ~match.ok
             THEN /\ ctl' = [ctl EXCEPT ![r] = Done(Resp(404, TRUE, <<"notFound", 0>>))]
                  /\ ctx' = [ctx EXCEPT ![r] =
                               [Context(compiled.method, NoHeader) EXCEPT !.path = pathname]]
                  /\ UNCHANGED route
             ELSE /\ ctl' = [ctl EXCEPT ![r] = At("sanitize")]
                  /\ ctx' = [ctx EXCEPT ![r] =
                               [Context(compiled.method, NoHeader) EXCEPT
                                   !.path = pathname,
                                   !.params = ExtractParams(compiled, match.groups)]]
                  /\ route' = [route EXCEPT ![r] = compiled]
    /\ trace' = [trace EXCEPT ![r] = <<>>]
    /\ UNCHANGED <<router, stk, index, auth>>

\* sanitizePathParam over the parameters of the match
SanitizeCaptured(r) ==
    /\ ctl[r].op = "sanitize"
    /\ LET sanitized == SanitizeEntries(route[r].params, ctx[r].params)
       IN IF sanitized.throws
          THEN /\ Respond(r, "sanitize", Resp(400, TRUE, <<"sanitize", 0>>))
               /\ UNCHANGED ctx
          ELSE /\ Proceed(r, "sanitize")
               /\ ctx' = [ctx EXCEPT ![r].sanitizedParams = sanitized.sanitizedParams]
    /\ UNCHANGED <<auth, router, route, stk, index>>

\* parseAndValidateBody for a route with a body schema, on the Content-Type
\* header and the body of the request
ParseRequestBody(r) ==
    /\ ctl[r].op = "body"
    /\ IF route[r].requestSchema.kind = "none"
       THEN /\ Proceed(r, "body")
            /\ UNCHANGED ctx
       ELSE \E header \in ContentTypeHeaders : \E body \in Bodies :
               LET contentType == IF header.has THEN header.val ELSE ApplicationJson
                   outcome == ParseAndValidateBody(body, route[r].requestSchema,
                                 contentType, route[r].supportedContentTypes)
               IN /\ ctx' = [ctx EXCEPT ![r].contentType = header, ![r].body = body]
                  /\ CASE outcome.t = "returned" -> Proceed(r, "body")
                       [] outcome.t = "response" -> Respond(r, "body", WithCors(outcome.v))
                       [] outcome.t = "error" ->
                             Respond(r, "body", Resp(400, TRUE, <<"Body validation failed", 0>>))
    /\ UNCHANGED <<auth, router, route, stk, index>>

\* container.getOrCreateDbClient() for a route with useDatabase
GetDbClient(r) ==
    /\ ctl[r].op = "db"
    /\ IF ~route[r].useDatabase
       THEN /\ Proceed(r, "db")
            /\ UNCHANGED <<ctx, router>>
       ELSE IF ~DatabaseEnabled(router.database)
       THEN /\ Respond(r, "db", Resp(500, TRUE, <<"Database configuration error", 0>>))
            /\ UNCHANGED <<ctx, router>>
       ELSE IF GetOrCreateDbClientThrows(router.database, router.cachedDb)
       THEN /\ Respond(r, "db", Resp(500, TRUE, <<"Database connection error", 0>>))
            /\ UNCHANGED <<ctx, router>>
       ELSE /\ Proceed(r, "db")
            /\ ctx' = [ctx EXCEPT ![r].db = TRUE]
            /\ router' = [router EXCEPT !.cachedDb =
                             @ \/ router.database.getOrCreateDbClient = "none"]
    /\ UNCHANGED <<auth, route, stk, index>>

\* the auth handler of the router: it returns a user, or a 401
InvokeDataAuthHandler(r) ==
    Authenticate(r,
        {[result |-> AuthResult(NoVal, User("admin"), "undefined"), getUser |-> FALSE],
         [result |-> ResponseOnly(Unauthorized("Invalid or expired token")),
          getUser |-> FALSE]},
        FALSE)

NextData ==
    \/ DefineDataRouter("req")
    \/ ReceiveData("req")
    \/ SanitizeCaptured("req")
    \/ ValidateQuery("req")
    \/ ValidatePathParams("req")
    \/ ParseRequestBody("req")
    \/ GetDbClient("req")
    \/ ResolveAuth("req")
    \/ InvokeDataAuthHandler("req")
    \/ RunChain("req")
    \/ CallComposed("req")
    \/ Dispatch("req")
    \/ EnterRouteChain("req")
    \/ CallMiddleware("req")
    \/ ResumeMiddleware("req")
    \/ ExecuteHandler("req")
    \/ Finish("req")
    \/ RequestOver("req")

SpecData == InitData /\ [][NextData]_vars

-----------------------------------------------------------------------------
(* SpecOutcome: two requests to one route; what the route handler and the  *)
(* authentication return or throw, and the response of the router          *)

\* a value of the language, as far as JSON.stringify tells values apart:
\* undefined, null, a string, a number (its decimal digits) or an object
\* (the list of its properties)
JsValue(type, chars, fields) ==
    [t |-> "value", type |-> type, chars |-> chars, fields |-> fields]

Undefined == JsValue("undefined", <<>>, <<>>)
Null == JsValue("null", <<>>, <<>>)
Str(chars) == JsValue("string", chars, <<>>)
Num(digits) == JsValue("number", digits, <<>>)
Obj(fields) == JsValue("object", <<>>, fields)
Property(key, value) == [key |-> key, value |-> value]

\* the quoted form of a string: backslash and double quote are escaped
JsonQuote(chars) ==
    <<"\"">> \o ReplaceChar(ReplaceChar(chars, "\\", <<"\\", "\\">>),
                            "\"", <<"\\", "\"">>) \o <<"\"">>

\* JSON.stringify(value): undefined has no JSON text, and a property whose
\* value is undefined is left out
RECURSIVE JsonStringify(_)
RECURSIVE JsonProperties(_, _, _)
JsonProperties(fields, i, first) ==
    IF i > Len(fields) THEN <<>>
    ELSE LET text == JsonStringify(fields[i].value)
         IN IF ~text.has THEN JsonProperties(fields, i + 1, first)
            ELSE (IF first THEN <<>> ELSE <<",">>)
                 \o JsonQuote(fields[i].key) \o <<":">> \o text.val
                 \o JsonProperties(fields, i + 1, FALSE)

JsonStringify(value) ==
    CASE value.type = "undefined" -> Missing
      [] value.type = "null" -> Given(<<"n", "u", "l", "l">>)
      [] value.type = "string" -> Given(JsonQuote(value.chars))
      [] value.type = "number" -> Given(value.chars)
      [] value.type = "object" ->
            Given(<<"{">> \o JsonProperties(value.fields, 1, TRUE) \o <<"}">>)

\* header names
AccessControlAllowOrigin == "Access-Control-Allow-Origin"
AccessControlAllowMethods == "Access-Control-Allow-Methods"
AccessControlAllowHeaders == "Access-Control-Allow-Headers"
AccessControlMaxAge == "Access-Control-Max-Age"
ContentType == "Content-Type"

NoHeaders == [name \in {} |-> ""]

\* { ...headers, ...more } and, for the entries of more, headers.set(key, value)
SetHeaders(headers, more) ==
    [name \in (DOMAIN headers) \cup (DOMAIN more) |->
        IF name \in DOMAIN more THEN more[name] ELSE headers[name]]

\* const defaultCors = { ... }
DefaultCorsHeaders(allowedMethods) ==
    [name \in {AccessControlAllowOrigin, AccessControlAllowMethods,
               AccessControlAllowHeaders, AccessControlMaxAge} |->
        CASE name = AccessControlAllowOrigin -> "*"
          [] name = AccessControlAllowMethods -> allowedMethods
          [] name = AccessControlAllowHeaders ->
                "authorization, x-client-info, apikey, content-type"
          [] name = AccessControlMaxAge -> "86400"]

\* route.corsHeaders given as a plain object of headers
PlainCorsHeaders ==
    [name \in {AccessControlAllowOrigin} |-> "https://app.example"]

\* route.corsHeaders ? buildCorsHeaders(origin, route.corsHeaders) : defaultCors
CorsHeaders(rt) ==
    IF rt.corsHeaders.has THEN rt.corsHeaders.val
    ELSE DefaultCorsHeaders(rt.method \o ", OPTIONS")

\* new Response(body, { status, headers }), made by who
NewResponse(body, status, headers, who) ==
    [t |-> "resp", status |-> status, cors |-> FALSE, by |-> who,
     body |-> body, headers |-> headers]

\* for (const [key, value] of Object.entries(corsHeaders))
\*     response.headers.set(key, value)
SetCorsHeaders(response, corsHeaders) ==
    [response EXCEPT !.headers = SetHeaders(@, corsHeaders), !.cors = TRUE]

\* new Response(JSON.stringify(value),
\*              { status, headers: { ...corsHeaders, "Content-Type": "application/json" } })
JsonResponse(value, status, corsHeaders, who) ==
    [NewResponse(JsonStringify(value), status,
                 SetHeaders(corsHeaders, [name \in {ContentType} |-> "application/json"]),
                 who)
     EXCEPT !.cors = TRUE]

\* an Error with this message, and a thrown value that is no Error
Error(message) == [t |-> "error", isError |-> TRUE, value |-> Str(message)]
Thrown(value) == [t |-> "thrown", isError |-> FALSE, value |-> value]

ErrorMessages ==
    { <<"d", "o", "w", "n">>,
      <<"k", "e", "y", "=", "s", "3", "c", "r", "e", "t">>,
      <<"<", "b", ">">> }

\* what user code throws besides a Response
ThrownValues ==
    {Error(message) : message \in ErrorMessages}
    \cup {Thrown(Str(<<"o", "o", "p", "s">>)), Thrown(Num(<<"4", "2">>))}

\* the responses user code makes: they carry no CORS header, or one of
\* their own
UserResponses ==
    {NewResponse(body, status, headers, HandlerName) :
        body \in {Missing, Given(<<"h", "i">>)},
        status \in {200, 404},
        headers \in {NoHeaders,
                     [name \in {AccessControlAllowOrigin, "X-Total"} |->
                         IF name = "X-Total" THEN "3" ELSE "https://other.example"]}}

\* the values a route handler returns that are no Response
ReturnedValues ==
    {Undefined, Null, Str(<<"a", "\"", "b">>), Num(<<"7">>),
     Obj(<<Property(<<"i", "d">>, Num(<<"1">>)),
           Property(<<"x">>, Undefined),
           Property(<<"t", "a", "g">>, Str(<<"o", "k">>))>>)}

\* what route.handler does with the context
HandlerResults ==
    {[ev |-> "returned", v |-> v] : v \in UserResponses \cup ReturnedValues}
    \cup {[ev |-> "threw", v |-> v] : v \in UserResponses \cup ThrownValues}

\* String(value)
StringOf(value) ==
    CASE value.type = "undefined" -> <<"u", "n", "d", "e", "f", "i", "n", "e", "d">>
      [] value.type = "null" -> <<"n", "u", "l", "l">>
      [] value.type = "object" ->
            <<"[", "o", "b", "j", "e", "c", "t", " ", "O", "b", "j", "e", "c", "t", "]">>
      [] OTHER -> value.chars

\* route.successResponseCode: absent, or a status code
NoCode == [has |-> FALSE, val |-> 0]
Code(status) == [has |-> TRUE, val |-> status]

StatusAsDeclared(declared) == declared.val

\* route.successResponseCode ?? 200
SuccessStatus(declared) == IF declared.has THEN declared.val ELSE 200

\* error instanceof Error ? error.message : "Internal server error"
ErrorMessageOf(error) ==
    IF error.isError THEN StringMessage(error.value.chars)
    ELSE StringMessage(InternalServerError)

\* executeHandler: the Response for what route.handler returned or threw
ExecuteHandlerResponse(result, rt) ==
    LET corsHeaders == CorsHeaders(rt)
    IN IF result.v.t = "resp" THEN SetCorsHeaders(result.v, corsHeaders)
       ELSE IF result.ev = "returned"
       THEN JsonResponse(result.v, SuccessStatus(rt.successResponseCode),
                         corsHeaders, <<"executeHandler", 0>>)
       ELSE JsonResponse(
               Obj(<<Property(<<"e", "r", "r", "o", "r">>,
                              Str(SanitizeErrorMessage(ErrorMessageOf(result.v))))>>),
               500, corsHeaders, <<"executeHandler", 0>>)

\* the catch of the authentication:
\* { error: "Authentication configuration error",
\*   message: error instanceof Error ? error.message : String(error) }
AuthenticationErrorResponse(error, rt) ==
    JsonResponse(
        Obj(<<Property(<<"e", "r", "r", "o", "r">>,
                       Str(<<"A", "u", "t", "h", "e", "n", "t", "i", "c", "a", "t",
                             "i", "o", "n", " ", "c", "o", "n", "f", "i", "g", "u",
                             "r", "a", "t", "i", "o", "n", " ", "e", "r", "r", "o",
                             "r">>)),
              Property(<<"m", "e", "s", "s", "a", "g", "e">>,
                       Str(IF error.isError THEN error.value.chars
                           ELSE StringOf(error.value)))>>),
        500, CorsHeaders(rt), <<"Authentication configuration error", 0>>)

\* the routes of the router of SpecOutcome
OutcomeRouteDefs ==
    [method : {"POST"},
     authRequired : BOOLEAN,
     allowedRoles : {Missing},
     authentication : {NoAuthentication},
     middlewares : {Named("R", <<"pass">>)},
     corsHeaders : {[has |-> FALSE, val |-> NoHeaders], Given(PlainCorsHeaders)},
     successResponseCode : {NoCode, Code(201), Code(202)}]

Requests == {"req", "alt"}

InitOutcome ==
    /\ \E def \in OutcomeRouteDefs :
          router = [middlewares |-> <<>>, terminal |-> "resp", route |-> def]
    /\ route = [r \in Requests |-> PublicRoute(<<>>)]
    /\ ctl = [r \in Requests |-> At("idle")]
    /\ stk = [r \in Requests |-> <<>>]
    /\ index = [r \in Requests |-> <<>>]
    /\ ctx = [r \in Requests |-> NoContext]
    /\ auth = [r \in Requests |-> NoAuth]
    /\ trace = [r \in Requests |-> <<>>]

\* a request that matches the route and passes the steps before the
\* authentication
ReceiveOutcome(r) ==
    /\ ctl[r].op = "idle"
    /\ route' = [route EXCEPT ![r] = router.route]
    /\ ctx' = [ctx EXCEPT ![r] = Context(router.route.method, NoHeader)]
    /\ ctl' = [ctl EXCEPT ![r] = At("auth")]
    /\ UNCHANGED <<router, stk, index, auth, trace>>

\* the try block of the authentication throws: at await getAuthHandler()
\* (step "auth") or in the auth handler (step "authHandler")
AuthenticationThrows(r, step) ==
    /\ ctl[r].op = step
    /\ route[r].authRequired
    /\ \E error \in ThrownValues :
          /\ ctl' = [ctl EXCEPT ![r] = Done(AuthenticationErrorResponse(error, route[r]))]
          /\ trace' = [trace EXCEPT ![r] =
                  @ \o <<Ran(step), Event(<<step, 0>>, "threw", 0, error),
                         Failed(step, AuthenticationErrorResponse(error, route[r]))>>]
    /\ auth' = [auth EXCEPT ![r].state = "threw"]
    /\ UNCHANGED <<router, route, stk, index, ctx>>

ResolveAuthOutcome(r) ==
    \/ Resolve(r, {FALSE}, {TRUE})
    \/ AuthenticationThrows(r, "auth")

InvokeAuthHandlerOutcome(r) ==
    \/ Authenticate(r,
          {[result |-> AuthResult(NoVal, User("admin"), "undefined"), getUser |-> FALSE]},
          FALSE)
    \/ AuthenticationThrows(r, "authHandler")

\* executeHandler
ExecuteHandlerOutcome(r) ==
    /\ ctl[r].op = "invoke"
    /\ ctl[r].k.t = "executeHandler"
    /\ \E result \in HandlerResults :
          /\ ctl' = [ctl EXCEPT ![r] = Return(ExecuteHandlerResponse(result, route[r]))]
          /\ trace' = Log(r, Event(HandlerName, result.ev, 0, result.v))
    /\ UNCHANGED <<auth, router, route, stk, index, ctx>>

NextOutcome ==
    \E r \in Requests :
        \/ ReceiveOutcome(r)
        \/ ResolveAuthOutcome(r)
        \/ InvokeAuthHandlerOutcome(r)
        \/ RunChain(r)
        \/ CallComposed(r)
        \/ Dispatch(r)
        \/ EnterRouteChain(r)
        \/ CallMiddleware(r)
        \/ ResumeMiddleware(r)
        \/ ExecuteHandlerOutcome(r)
        \/ Finish(r)
        \/ RequestOver(r)

SpecOutcome == InitOutcome /\ [][NextOutcome]_vars

-----------------------------------------------------------------------------
(* SpecErrors: two requests to one route; the responses the handler makes  *)
(* itself when a step fails, with their status, body and headers           *)

XContentTypeOptions == "X-Content-Type-Options"

ErrorProperty(message) == Property(<<"e", "r", "r", "o", "r">>, Str(message))

\* new Response(JSON.stringify({ error }), { status, headers: defaultCors })
NotFoundResponse(allowedMethods) ==
    [NewResponse(JsonStringify(Obj(<<ErrorProperty(<<"N", "o", "t", " ", "F", "o", "u", "n", "d">>)>>)), 404,
                 DefaultCorsHeaders(allowedMethods), <<"lookup", 0>>)
     EXCEPT !.cors = TRUE]

\* createErrorResponse(message, status): no CORS headers yet
CreateErrorResponse(message, status) ==
    NewResponse(
        JsonStringify(Obj(<<ErrorProperty(SanitizeErrorMessage(StringMessage(message)))>>)),
        status,
        [name \in {ContentType, XContentTypeOptions} |->
            IF name = ContentType THEN "application/json" ELSE "nosniff"],
        <<"createErrorResponse", 0>>)

\* what parseAndValidateBody throws as a Response: 415, or 400 with the
\* details; headers: { "Content-Type": "application/json" }
BodyResponses ==
    {NewResponse(JsonStringify(Obj(<<ErrorProperty(<<"U", "n", "s", "u", "p", "p", "o", "r", "t", "e", "d", " ", "M", "e", "d", "i", "a", " ", "T", "y", "p", "e">>)>>)), 415,
                 [name \in {ContentType} |-> "application/json"], <<"body", 0>>),
     NewResponse(JsonStringify(Obj(<<ErrorProperty(<<"V", "a", "l", "i", "d", "a", "t", "i", "o", "n", " ", "f", "a", "i", "l", "e", "d">>),
                                     Property(<<"d", "e", "t", "a", "i", "l", "s">>, Obj(<<>>))>>)), 400,
                 [name \in {ContentType} |-> "application/json"], <<"body", 0>>)}

\* the responses of the failures of a step, for the route rt
StepFailures(step, rt) ==
    LET corsHeaders == CorsHeaders(rt)
        Json(fields, status) == JsonResponse(Obj(fields), status, corsHeaders, <<step, 0>>)
    IN CASE step = "sanitize" ->
               {Json(<<ErrorProperty(SanitizeErrorMessage(StringMessage(message)))>>, 400) :
                   message \in {<<"P", "a", "t", "h", " ", "t", "r", "a", "v", "e", "r", "s", "a", "l", " ", "d", "e", "t", "e", "c", "t", "e", "d">>, <<"I", "n", "v", "a", "l", "i", "d", " ", "p", "a", "t", "h", " ", "p", "a", "r", "a", "m", "e", "t", "e", "r">>}}
         [] step = "query" ->
               {Json(<<ErrorProperty(<<"Q", "u", "e", "r", "y", " ", "v", "a", "l", "i", "d", "a", "t", "i", "o", "n", " ", "f", "a", "i", "l", "e", "d">>),
                       Property(<<"d", "e", "t", "a", "i", "l", "s">>, Obj(<<>>))>>, 400)}
         [] step = "params" ->
               {Json(<<ErrorProperty(<<"P", "a", "t", "h", " ", "p", "a", "r", "a", "m", "e", "t", "e", "r", " ", "v", "a", "l", "i", "d", "a", "t", "i", "o", "n", " ", "f", "a", "i", "l", "e", "d">>),
                       Property(<<"d", "e", "t", "a", "i", "l", "s">>, Obj(<<>>))>>, 400)}
         [] step = "body" ->
               {SetCorsHeaders(thrown, corsHeaders) : thrown \in BodyResponses}
               \cup {Json(<<ErrorProperty(<<"B", "o", "d", "y", " ", "v", "a", "l", "i", "d", "a", "t", "i", "o", "n", " ", "f", "a", "i", "l", "e", "d">>)>>, 400)}
         [] step = "db" ->
               {Json(<<ErrorProperty(<<"D", "a", "t", "a", "b", "a", "s", "e", " ", "c", "o", "n", "f", "i", "g", "u", "r", "a", "t", "i", "o", "n", " ", "e", "r", "r", "o", "r">>),
                       Property(<<"m", "e", "s", "s", "a", "g", "e">>, Str(<<"n", "o", " ", "c", "l", "i", "e", "n", "t">>))>>, 500),
                Json(<<ErrorProperty(<<"D", "a", "t", "a", "b", "a", "s", "e", " ", "c", "o", "n", "n", "e", "c", "t", "i", "o", "n", " ", "e", "r", "r", "o", "r">>),
                       Property(<<"m", "e", "s", "s", "a", "g", "e">>, Str(<<"r", "e", "f", "u", "s", "e", "d">>))>>, 500)}
         [] step = "auth" ->
               {AuthenticationErrorResponse(Error(<<"d", "o", "w", "n">>), rt),
                JsonResponse(Obj(<<ErrorProperty(<<"M", "e", "t", "h", "o", "d", " ", "N", "o", "t", " ", "A", "l", "l", "o", "w", "e", "d">>)>>), 405,
                             SetHeaders(corsHeaders, [name \in {"Allow"} |-> "GET"]),
                             <<step, 0>>)}
         [] step = "authHandler" ->
               {AuthenticationErrorResponse(Error(<<"d", "o", "w", "n">>), rt),
                SetCorsHeaders(CreateErrorResponse(<<"I", "n", "v", "a", "l", "i", "d", " ", "o", "r", " ", "e", "x", "p", "i", "r", "e", "d", " ", "t", "o", "k", "e", "n">>, 401),
                               corsHeaders),
                SetCorsHeaders(CreateErrorResponse(<<"I", "n", "s", "u", "f", "f", "i", "c", "i", "e", "n", "t", " ", "p", "e", "r", "m", "i", "s", "s", "i", "o", "n", "s">>, 403),
                               corsHeaders)}
         [] step = "chain" ->
               {ExecuteHandlerResponse([ev |-> "threw", v |-> Error(<<"d", "o", "w", "n">>)], rt)}

ErrorRouteDefs ==
    [method : {"POST"},
     authRequired : {TRUE},
     allowedRoles : {Missing},
     authentication : {NoAuthentication},
     middlewares : {<<>>},
     corsHeaders : {[has |-> FALSE, val |-> NoHeaders], Given(PlainCorsHeaders)},
     successResponseCode : {NoCode}]

InitErrors ==
    /\ \E def \in ErrorRouteDefs :
          router = [middlewares |-> <<>>, terminal |-> "resp", route |-> def]
    /\ route = [r \in Requests |-> PublicRoute(<<>>)]
    /\ ctl = [r \in Requests |-> At("idle")]
    /\ stk = [r \in Requests |-> <<>>]
    /\ index = [r \in Requests |-> <<>>]
    /\ ctx = [r \in Requests |-> NoContext]
    /\ auth = [r \in Requests |-> NoAuth]
    /\ trace = [r \in Requests |-> <<>>]

\* matchRoute and getAllowedMethods: no route for the path (an OPTIONS
\* request, or any other), or the route of the router
LookupRoute(r) ==
    /\ ctl[r].op = "idle"
    /\ \/ \E method \in {"OPTIONS", "GET"} :
             /\ ctx' = [ctx EXCEPT ![r] = Context(method, NoHeader)]
             /\ ctl' = [ctl EXCEPT ![r] = Done(NotFoundResponse(""))]
             /\ trace' = Log(r, Failed("lookup", NotFoundResponse("")))
             /\ UNCHANGED route
       \/ /\ route' = [route EXCEPT ![r] = router.route]
          /\ ctx' = [ctx EXCEPT ![r] = Context(router.route.method, NoHeader)]
          /\ ctl' = [ctl EXCEPT ![r] = At("sanitize")]
          /\ UNCHANGED trace
    /\ UNCHANGED <<router, stk, index, auth>>

\* a step of the handler fails with one of its responses, or succeeds; the
\* last step is the middleware chain with the route handler
HandlerStep(r, step) ==
    /\ ctl[r].op = step
    /\ \/ \E response \in StepFailures(step, route[r]) : Respond(r, step, response)
       \/ /\ step /= "chain"
          /\ Proceed(r, step)
       \/ /\ step = "chain"
          /\ LET response == ExecuteHandlerResponse(
                                [ev |-> "returned", v |-> Str(<<"o", "k">>)], route[r])
             IN /\ ctl' = [ctl EXCEPT ![r] = Done(response)]
                /\ trace' = Log(r, Event(HandlerName, "returned", 0, response))
    /\ UNCHANGED <<router, route, stk, index, ctx, auth>>

NextErrors ==
    \E r \in Requests :
        \/ LookupRoute(r)
        \/ HandlerStep(r, "sanitize")
        \/ HandlerStep(r, "query")
        \/ HandlerStep(r, "params")
        \/ HandlerStep(r, "body")
        \/ HandlerStep(r, "db")
        \/ HandlerStep(r, "auth")
        \/ HandlerStep(r, "authHandler")
        \/ HandlerStep(r, "chain")
        \/ RequestOver(r)

SpecErrors == InitErrors /\ [][NextErrors]_vars

-----------------------------------------------------------------------------
(* SpecClients: one container, its environment and the module-level cache  *)
(* of Supabase clients.  SpecContainers: two containers of one process     *)
(* with the same environment and factories of their own                    *)

\* let moduleCachedAnonClient = null; let moduleCachedAnonUrl, moduleCachedAnonKey
NoClient == [id |-> 0, factory |-> "none", url |-> "", key |-> ""]
EmptyCache == [client |-> NoClient, url |-> "undefined", key |-> "undefined"]

\* the values of SUPABASE_URL, SUPABASE_ANON_KEY and SUPABASE_SERVICE_ROLE_KEY
\* in the environment of a container; "" is a variable that is not set
EnvUrls == {"", "https://a.example", "https://b.example"}
EnvAnonKeys == {"", "anon-1", "anon-2"}
EnvServiceKeys == {"", "service-1"}
ContainerEnvs == [url : EnvUrls, anon : EnvAnonKeys, service : EnvServiceKeys]

ClientKinds == {"anon", "service"}

\* container.supabaseClientFactory.create(url, key): a new client
CreateClient(factory, url, key, created) ==
    [id |-> created + 1, factory |-> factory, url |-> url, key |-> key]

CachedIgnoringKey(cache, url, key) ==
    cache.client /= NoClient /\ cache.url = url

\* moduleCachedClient && moduleCachedUrl === url && moduleCachedKey === key
Cached(cache, url, key) ==
    cache.client /= NoClient /\ cache.url = url /\ cache.key = key

\* a call and what it returned
CallEvent(kind, url, key, client, created) ==
    [who |-> <<kind, 0>>, ev |-> IF client = NoClient THEN "threw" ELSE "returned",
     n |-> IF created THEN 1 ELSE 0, v |-> client, url |-> url, key |-> key]

\* getOrCreateAnonClient() / getOrCreateServiceClient() of container c
GetOrCreateClient(c, kind) ==
    LET url == ctx[c].env.url
        key == ctx[c].env[kind]
        cache == router[kind]
        client == CreateClient(ctx[c].factory, url, key, router.created)
    IN /\ Len(trace[c]) < MaxCalls
       /\ IF url = "" \/ key = ""
          THEN /\ trace' = Log(c, CallEvent(kind, url, key, NoClient, FALSE))
               /\ UNCHANGED router
          ELSE IF Cached(cache, url, key)
          THEN /\ trace' = Log(c, CallEvent(kind, url, key, cache.client, FALSE))
               /\ UNCHANGED router
          ELSE /\ router' = [router EXCEPT
                                ![kind] = [client |-> client, url |-> url, key |-> key],
                                !.created = @ + 1]
               /\ trace' = Log(c, CallEvent(kind, url, key, client, TRUE))
       /\ UNCHANGED <<route, ctl, stk, index, ctx, auth>>

GetOrCreateAnonClient(c) == GetOrCreateClient(c, "anon")

GetOrCreateServiceClient(c) == GetOrCreateClient(c, "service")

\* a variable of the environment of the container changes: container.env.get
\* returns another value from now on
ChangeEnv(c) ==
    /\ \E name \in {"url", "anon", "service"} : \E env \in ContainerEnvs :
          /\ env[name] /= ctx[c].env[name]
          /\ env = [ctx[c].env EXCEPT ![name] = env[name]]
          /\ ctx' = [ctx EXCEPT ![c].env = env]
    /\ UNCHANGED <<router, route, ctl, stk, index, auth, trace>>

\* the module is loaded, and each of the containers is created with an
\* environment and a supabaseClientFactory of its own
InitModule(containers, envs) ==
    /\ router = [anon |-> EmptyCache, service |-> EmptyCache, created |-> 0]
    /\ \E env \in envs :
          ctx = [c \in containers |-> [env |-> env, factory |-> c]]
    /\ route = [c \in containers |-> PublicRoute(<<>>)]
    /\ ctl = [c \in containers |-> At("idle")]
    /\ stk = [c \in containers |-> <<>>]
    /\ index = [c \in containers |-> <<>>]
    /\ auth = [c \in containers |-> NoAuth]
    /\ trace = [c \in containers |-> <<>>]

InitClients == InitModule({"container"}, ContainerEnvs)

NextClients ==
    \/ GetOrCreateAnonClient("container")
    \/ GetOrCreateServiceClient("container")
    \/ ChangeEnv("container")

SpecClients == InitClients /\ [][NextClients]_vars

InitContainers ==
    InitModule({"first", "second"},
               {env \in ContainerEnvs : env.url /= "" /\ env.anon /= "" /\ env.service /= ""})

NextContainers ==
    \E c \in {"first", "second"} :
        \/ GetOrCreateAnonClient(c)
        \/ GetOrCreateServiceClient(c)

SpecContainers == InitContainers /\ [][NextContainers]_vars

-----------------------------------------------------------------------------
(* SpecRate: one rateLimitMiddleware of one process, the clock and the      *)
(* requests that arrive                                                     *)

\* the keys of the requests: keyFn(ctx), or the x-forwarded-for header, or
\* "unknown" without the header
RateKeys == {"10.0.0.1", "unknown"}

\* timestamps.filter((ts) => now - ts < options.windowMs)
FilterOld(timestamps, now, windowMs) ==
    SelectSeq(timestamps, LAMBDA ts : now - ts < windowMs)

LimitExceededAbove(timestamps, maxRequests) == Len(timestamps) > maxRequests

\* timestamps.length >= options.maxRequests
LimitExceeded(timestamps, maxRequests) == Len(timestamps) >= maxRequests

\* rateLimitMiddleware(options): const requests = new Map()
InitRate ==
    /\ \E maxRequests \in 1..2 : \E windowMs \in 2..3 :
          router = [maxRequests |-> maxRequests, windowMs |-> windowMs,
                    requests |-> [key \in RateKeys |-> <<>>], now |-> 0]
    /\ route = [r \in {"req"} |-> PublicRoute(<<>>)]
    /\ ctl = [r \in {"req"} |-> At("idle")]
    /\ stk = [r \in {"req"} |-> <<>>]
    /\ index = [r \in {"req"} |-> <<>>]
    /\ ctx = [r \in {"req"} |-> NoContext]
    /\ auth = [r \in {"req"} |-> NoAuth]
    /\ trace = [r \in {"req"} |-> <<>>]

\* a millisecond passes
Tick ==
    /\ router.now < MaxTime
    /\ router' = [router EXCEPT !.now = @ + 1]
    /\ UNCHANGED <<route, ctl, stk, index, ctx, auth, trace>>

\* the middleware, for a request with this key: 429, or the timestamp is
\* stored and next() is called
RateLimit(r, key) ==
    LET now == router.now
        timestamps == FilterOld(router.requests[key], now, router.windowMs)
    IN /\ Len(trace[r]) < MaxArrivals
       /\ IF LimitExceeded(timestamps, router.maxRequests)
          THEN /\ trace' = Log(r, Event(<<key, 0>>, "429", now, Resp(429, FALSE, <<key, 0>>)))
               /\ UNCHANGED router
          ELSE /\ router' = [router EXCEPT !.requests[key] = Append(timestamps, now)]
               /\ trace' = Log(r, Event(<<key, 0>>, "next", now, NoVal))
       /\ UNCHANGED <<route, ctl, stk, index, ctx, auth>>

NextRate ==
    \/ Tick
    \/ \E key \in RateKeys : RateLimit("req", key)

SpecRate == InitRate /\ [][NextRate]_vars

-----------------------------------------------------------------------------
(* SpecIds: a router whose container has a counting idGenerator, and a     *)
(* route whose handler calls services.idGenerator.generate() once          *)

\* `custom-id-${n}`
CustomId(n) == <<"custom-id-", n>>

\* generate: () => `custom-id-${++idCounter}`
GenerateId(idCounter) == [id |-> CustomId(idCounter + 1), idCounter |-> idCounter + 1]

InitIds ==
    /\ router = [middlewares |-> <<>>, terminal |-> "resp",
                 route |-> [method |-> "POST", authRequired |-> FALSE,
                            allowedRoles |-> Missing, authentication |-> NoAuthentication,
                            middlewares |-> Named("R", <<"pass">>)],
                 idCounter |-> 0, received |-> 0, userIds |-> <<>>]
    /\ route = [r \in Requests |-> PublicRoute(<<>>)]
    /\ ctl = [r \in Requests |-> At("idle")]
    /\ stk = [r \in Requests |-> <<>>]
    /\ index = [r \in Requests |-> <<>>]
    /\ ctx = [r \in Requests |-> NoContext]
    /\ auth = [r \in Requests |-> NoAuth]
    /\ trace = [r \in Requests |-> <<>>]

\* a request for the route: matchRoute, then
\* const requestId = container.idGenerator.generate()
ReceiveWithRequestId(r) ==
    LET generated == GenerateId(router.idCounter)
    IN /\ ctl[r].op = "idle"
       /\ router.received < MaxRequests
       /\ router' = [router EXCEPT !.idCounter = generated.idCounter, !.received = @ + 1]
       /\ route' = [route EXCEPT ![r] = router.route]
       /\ ctx' = [ctx EXCEPT ![r] = Context(router.route.method, NoHeader)]
       /\ ctl' = [ctl EXCEPT ![r] = At("sanitize")]
       /\ trace' = Log(r, Event(<<"requestId", 0>>, "generate", 0, generated.id))
       /\ UNCHANGED <<stk, index, auth>>

\* executeHandler with the handler of the route:
\* const userId = services.idGenerator.generate(); return { id: userId, ... }
CreateUser(r) ==
    LET generated == GenerateId(router.idCounter)
    IN /\ ctl[r].op = "invoke"
       /\ ctl[r].k.t = "executeHandler"
       /\ router' = [router EXCEPT !.idCounter = generated.idCounter,
                                   !.userIds = Append(@, generated.id)]
       /\ ctl' = [ctl EXCEPT ![r] = Return(Resp(200, TRUE, HandlerName))]
       /\ trace' = Log(r, Event(HandlerName, "generate", 0, generated.id))
       /\ UNCHANGED <<auth, route, stk, index, ctx>>

NextIds ==
    \E r \in Requests :
        \/ ReceiveWithRequestId(r)
        \/ SanitizeParams(r)
        \/ ValidateQuery(r)
        \/ ValidatePathParams(r)
        \/ ParseBody(r)
        \/ AcquireDbClient(r)
        \/ ResolveAuth(r)
        \/ RunChain(r)
        \/ CallComposed(r)
        \/ Dispatch(r)
        \/ EnterRouteChain(r)
        \/ CallMiddleware(r)
        \/ ResumeMiddleware(r)
        \/ CreateUser(r)
        \/ Finish(r)
        \/ RequestOver(r)

SpecIds == InitIds /\ [][NextIds]_vars

-----------------------------------------------------------------------------
(* SpecCors: a router with global corsHeaders in its configuration, and    *)
(* requests with an Origin header                                          *)

\* config.corsHeaders: absent, or a CorsConfig with allowedOrigins "*" or a
\* list of origins
NoCorsConfig == [has |-> FALSE, wildcard |-> FALSE, allowedOrigins |-> <<>>,
                 credentials |-> FALSE]
CorsConfigs ==
    {NoCorsConfig}
    \cup [has : {TRUE}, wildcard : {TRUE}, allowedOrigins : {<<>>}, credentials : BOOLEAN]
    \cup [has : {TRUE}, wildcard : {FALSE},
          allowedOrigins : {<<"https://example.com", "https://app.example.com">>},
          credentials : BOOLEAN]

\* the Origin header of the requests
Origins == {"", "https://example.com", "https://evil.example"}

InitCors ==
    /\ \E def \in ErrorRouteDefs : \E config \in CorsConfigs :
          router = [middlewares |-> <<>>, terminal |-> "resp", route |-> def,
                    corsHeaders |-> config]
    /\ route = [r \in {"req"} |-> PublicRoute(<<>>)]
    /\ ctl = [r \in {"req"} |-> At("config")]
    /\ stk = [r \in {"req"} |-> <<>>]
    /\ index = [r \in {"req"} |-> <<>>]
    /\ ctx = [r \in {"req"} |-> NoContext]
    /\ auth = [r \in {"req"} |-> NoAuth]
    /\ trace = [r \in {"req"} |-> <<>>]

\* defineRouter(config): the validation of config.corsHeaders, which throws
\* for the wildcard origin with credentials
ValidateCorsConfig(r) ==
    /\ ctl[r].op = "config"
    /\ ctl' = [ctl EXCEPT ![r] =
                 IF /\ router.corsHeaders.has
                    /\ router.corsHeaders.wildcard
                    /\ router.corsHeaders.credentials
                 THEN At("buildFailed")
                 ELSE At("idle")]
    /\ UNCHANGED <<router, route, stk, index, ctx, auth, trace>>

\* a request with an Origin header that matches the route
ReceiveWithOrigin(r) ==
    /\ ctl[r].op = "idle"
    /\ \E origin \in Origins :
          trace' = Log(r, Event(<<"origin", 0>>, "header", 0, origin))
    /\ route' = [route EXCEPT ![r] = router.route]
    /\ ctx' = [ctx EXCEPT ![r] = Context(router.route.method, NoHeader)]
    /\ ctl' = [ctl EXCEPT ![r] = At("sanitize")]
    /\ UNCHANGED <<router, stk, index, auth>>

NextCors ==
    \/ ValidateCorsConfig("req")
    \/ ReceiveWithOrigin("req")
    \/ HandlerStep("req", "sanitize")
    \/ HandlerStep("req", "query")
    \/ HandlerStep("req", "params")
    \/ HandlerStep("req", "body")
    \/ HandlerStep("req", "db")
    \/ HandlerStep("req", "auth")
    \/ HandlerStep("req", "authHandler")
    \/ HandlerStep("req", "chain")
    \/ RequestOver("req")

SpecCors == InitCors /\ [][NextCors]_vars

-----------------------------------------------------------------------------
(* SpecLazy: a router without authHandler, several requests in flight, and   *)
(* an environment that changes: getAuthHandler and authHandlerPromise        *)

\* let authHandlerPromise = null
NoPromise == [made |-> FALSE, settled |-> FALSE, rejected |-> FALSE]

\* getOrCreateDefaultAuthHandler(container): the promise of an async function
\* whose body has run to its first await, so createDefaultAuthHandler has
\* read the environment; the promise is rejected when it threw
DefaultHandlerPromise(env) ==
    [made |-> TRUE, settled |-> FALSE, rejected |-> DefaultHandlerThrows(env)]

MustCreateOrRetry(promise) ==
    ~promise.made \/ (promise.settled /\ promise.rejected)

\* !authHandlerPromise
MustCreate(promise) == ~promise.made

InitLazy ==
    /\ \E env \in Envs :
          router = [env |-> env, authHandlerPromise |-> NoPromise, attempts |-> <<>>]
    /\ route = [r \in Requests |-> PublicRoute(<<>>)]
    /\ ctl = [r \in Requests |-> At("idle")]
    /\ stk = [r \in Requests |-> <<>>]
    /\ index = [r \in Requests |-> <<>>]
    /\ ctx = [r \in Requests |-> NoContext]
    /\ auth = [r \in Requests |-> NoAuth]
    /\ trace = [r \in Requests |-> <<>>]

\* a request for a route of the router arrives and reaches the
\* authentication; received is the environment at its arrival
ReceiveLazy(r) ==
    /\ ctl[r].op = "idle"
    /\ \E authRequired \in BOOLEAN :
          route' = [route EXCEPT ![r] = [PublicRoute(<<>>) EXCEPT !.authRequired = authRequired]]
    /\ ctx' = [ctx EXCEPT ![r] = [received |-> router.env]]
    /\ ctl' = [ctl EXCEPT ![r] = At("auth")]
    /\ trace' = [trace EXCEPT ![r] = <<>>]
    /\ UNCHANGED <<router, stk, index, auth>>

\* if (route.authRequired) getAuthHandler(), up to its await: the first call
\* makes the promise; a route without authRequired goes on to its handler
GetAuthHandler(r) ==
    /\ ctl[r].op = "auth"
    /\ IF ~route[r].authRequired
       THEN /\ ctl' = [ctl EXCEPT ![r] = Done(Resp(200, TRUE, HandlerName))]
            /\ UNCHANGED router
       ELSE /\ ctl' = [ctl EXCEPT ![r] = At("await")]
            /\ IF MustCreate(router.authHandlerPromise)
               THEN router' = [router EXCEPT
                       !.authHandlerPromise = DefaultHandlerPromise(router.env),
                       !.attempts = Append(@, router.env)]
               ELSE UNCHANGED router
    /\ UNCHANGED <<route, stk, index, ctx, auth, trace>>

\* the promise settles
SettlePromise ==
    /\ router.authHandlerPromise.made
    /\ ~router.authHandlerPromise.settled
    /\ router' = [router EXCEPT !.authHandlerPromise.settled = TRUE]
    /\ UNCHANGED <<route, ctl, stk, index, ctx, auth, trace>>

\* return await authHandlerPromise, in the try of the authentication: a
\* rejection is caught and answered with 500
AwaitAuthHandler(r) ==
    /\ ctl[r].op = "await"
    /\ router.authHandlerPromise.settled
    /\ ctl' = [ctl EXCEPT ![r] =
                 IF router.authHandlerPromise.rejected
                 THEN Done(AuthConfigError)
                 ELSE At("authHandler")]
    /\ UNCHANGED <<router, route, stk, index, ctx, auth, trace>>

\* authHandler(req, authOptions) returns a user and the route handler
\* answers, or it returns a 401
InvokeAuthHandlerLazy(r) ==
    /\ ctl[r].op = "authHandler"
    /\ \E v \in {Resp(200, TRUE, HandlerName),
                 WithCors(Unauthorized("Invalid or expired token"))} :
          ctl' = [ctl EXCEPT ![r] = Done(v)]
    /\ UNCHANGED <<router, route, stk, index, ctx, auth, trace>>

\* a variable of the environment is set or unset
ChangeEnvironment ==
    /\ \E env \in Envs :
          /\ env /= router.env
          /\ router' = [router EXCEPT !.env = env]
    /\ UNCHANGED <<route, ctl, stk, index, ctx, auth, trace>>

NextLazy ==
    \/ \E r \in Requests :
          \/ ReceiveLazy(r)
          \/ GetAuthHandler(r)
          \/ AwaitAuthHandler(r)
          \/ InvokeAuthHandlerLazy(r)
          \/ RequestOver(r)
    \/ SettlePromise
    \/ ChangeEnvironment

SpecLazy == InitLazy /\ [][NextLazy]_vars

-----------------------------------------------------------------------------
(* Properties of the middleware chain (SpecChain) *)

Req == "req"

AllMws == router.middlewares \o route[Req].middlewares

\* position of a middleware in the order global[0..], route[0..]
PosOf(name) == CHOOSE i \in 1..Len(AllMws) : AllMws[i].name = name

KindOf(name) == AllMws[PosOf(name)].kind

ChainEvents(t) == SelectSeq(t, LAMBDA e : e.ev \in {"before", "after", "handler"})

WhoEv(t) == [j \in 1..Len(t) |-> <<t[j].who, t[j].ev>>]

Befores(mws) == [j \in 1..Len(mws) |-> <<mws[j].name, "before">>]

Afters(mws) == [j \in 1..Len(mws) |-> <<mws[Len(mws) + 1 - j].name, "after">>]

OnionOrder ==
    Befores(router.middlewares) \o Befores(route[Req].middlewares)
        \o << <<HandlerName, "handler">> >>
        \o Afters(route[Req].middlewares) \o Afters(router.middlewares)

IsPrefix(s, t) == Len(s) <= Len(t) /\ \A j \in 1..Len(s) : s[j] = t[j]

EveryMwCallsNextOnce == \A j \in 1..Len(AllMws) : AllMws[j].kind \in {"pass", "clone"}

\* what the code that logged chain event e hands to its caller
ReturnOf(e) ==
    CASE e.ev = "handler" -> e.v
      [] e.ev = "after" /\ e.v.t = "resp" /\ KindOf(e.who) = "clone" ->
            [e.v EXCEPT !.by = e.who]
      [] e.ev = "after" -> e.v
      [] e.ev = "before" /\ KindOf(e.who) = "short" -> Resp(429, FALSE, e.who)
      [] OTHER -> Err("middleware error")

\* C5: when every middleware calls next() exactly once, a request runs
\* G0-before .. Gm-before, R0-before .. Rn-before, handler, Rn-after ..
\* R0-after, Gm-after .. G0-after, and every next() resolves to what the
\* code directly downstream of it returned.
C5_OnionOrder ==
    EveryMwCallsNextOnce =>
        LET t == ChainEvents(trace[Req])
        IN /\ IsPrefix(WhoEv(t), OnionOrder)
           /\ ctl[Req].op = "done" => WhoEv(t) = OnionOrder
           /\ \A j \in 1..Len(t) :
                 t[j].ev = "after" => j > 1 /\ t[j].v = ReturnOf(t[j - 1])
           /\ (ctl[Req].op = "done" /\ t /= <<>>) => ctl[Req].v = ReturnOf(t[Len(t)])

C5_Witness ==
    /\ ctl[Req].op = "done"
    /\ EveryMwCallsNextOnce
    /\ Len(router.middlewares) >= 2
    /\ Len(route[Req].middlewares) >= 2
    /\ \E j \in 1..Len(AllMws) : AllMws[j].kind = "clone"

CountEv(t, who, ev) == Cardinality({j \in 1..Len(t) : t[j].who = who /\ t[j].ev = ev})

\* C6: a second next() of any middleware rejects with "next() called
\* multiple times" and runs nothing downstream again: every middleware is
\* entered at most once and the route handler runs at most once.
C6_SecondNextRejects ==
    LET t == trace[Req]
    IN /\ CountEv(t, HandlerName, "handler") <= 1
       /\ \A j \in 1..Len(AllMws) : CountEv(t, AllMws[j].name, "before") <= 1
       /\ \A j \in 1..Len(t) :
             (t[j].ev = "after" /\ t[j].n = 2) =>
                 /\ t[j].v = MultipleNextError
                 /\ t[j - 1].who = t[j].who
                 /\ t[j - 1].ev = "after"

\* the last route middleware, whose next is the handler, called next() a
\* second time after the handler had run
C6_Witness ==
    LET t == trace[Req]
        m == route[Req].middlewares
    IN /\ router.middlewares /= <<>> /\ m /= <<>>
       /\ ctl[Req].op = "done"
       /\ CountEv(t, HandlerName, "handler") = 1
       /\ \E j \in 1..Len(t) :
             t[j].ev = "after" /\ t[j].n = 2 /\ t[j].who = m[Len(m)].name

\* the short-circuiting middlewares that have run
ShortCircuited ==
    {j \in 1..Len(AllMws) :
        AllMws[j].kind = "short" /\ CountEv(trace[Req], AllMws[j].name, "before") > 0}

NothingLaterRuns(x) ==
    /\ CountEv(trace[Req], HandlerName, "handler") = 0
    /\ \A j \in (x + 1)..Len(AllMws) : CountEv(trace[Req], AllMws[j].name, "before") = 0

\* C7 as stated: after a middleware returns without calling next(), nothing
\* later runs and EVERY earlier middleware gets exactly that response from
\* its next().
C7_EveryEarlierGetsThatResponse ==
    \A x \in ShortCircuited :
        /\ NothingLaterRuns(x)
        /\ \A j \in 1..Len(trace[Req]) :
              (trace[Req][j].ev = "after" /\ trace[Req][j].n = 1) =>
                  trace[Req][j].v = Resp(429, FALSE, AllMws[x].name)

\* C7 amended: nothing later runs; the middleware directly upstream gets
\* exactly that response; every earlier one gets what the middleware
\* directly downstream of it returned, which is that response when all the
\* middlewares before the short-circuiting one pass their result through.
C7_ShortCircuit ==
    \A x \in ShortCircuited :
        LET t == ChainEvents(trace[Req])
            short == Resp(429, FALSE, AllMws[x].name)
        IN /\ NothingLaterRuns(x)
           /\ \A j \in 1..Len(t) :
                 (t[j].ev = "after" /\ t[j].n = 1) =>
                     /\ j > 1 /\ t[j].v = ReturnOf(t[j - 1])
                     /\ PosOf(t[j].who) = x - 1 => t[j].v = short
                     /\ (\A i \in 1..(x - 1) : AllMws[i].kind = "pass") => t[j].v = short
           /\ (ctl[Req].op = "done" /\ \A i \in 1..(x - 1) : AllMws[i].kind = "pass")
                 => ctl[Req].v = short

\* a route middleware short-circuited behind two globals, one of which
\* copies the response it got
C7_Witness ==
    /\ ctl[Req].op = "done"
    /\ \E x \in ShortCircuited :
          /\ x >= 3
          /\ x > Len(router.middlewares)
          /\ \E i \in 1..(x - 1) : AllMws[i].kind = "clone"
          /\ \A i \in 1..(x - 1) : AllMws[i].kind \in {"pass", "clone"}

-----------------------------------------------------------------------------
(* Properties of the request handler (Spec) *)

RankOf(step) == CHOOSE i \in 1..Len(StepOrder) : StepOrder[i] = step

StepsOf(t) == SelectSeq(t, LAMBDA e : e.ev = "step")

\* something was thrown in the middleware chain
ChainThrew(t) ==
    \E j \in 1..Len(t) :
        \/ t[j].ev = "after" /\ t[j].v.t = "err"
        \/ t[j].ev = "before" /\ KindOf(t[j].who) = "throw"

\* the steps run in the order of StepOrder, each at most once, the
\* middlewares and the route handler only inside the chain step, and
\* nothing runs after a step has returned a response
StepsInOrder ==
    LET t == trace[Req]
        st == StepsOf(t)
    IN /\ \A i, j \in 1..Len(st) :
             i < j => RankOf(st[i].who[1]) < RankOf(st[j].who[1])
       /\ \A j \in 1..Len(t) :
             t[j].ev \in {"before", "after", "handler"} =>
                 \E i \in 1..(j - 1) : t[i] = Ran("chain")
       /\ \A j \in 1..Len(t) :
             t[j].ev = "fail" =>
                 /\ j = Len(t)
                 /\ t[j - 1] = Ran(t[j].who[1])
                 /\ ctl[Req] = Done(t[j].v)
       /\ Ran("authHandler") \in {st[i] : i \in 1..Len(st)} => route[Req].authRequired

\* C1: the steps of a matched request run in the fixed order sanitize,
\* query, path parameters, body, data client, authentication, middleware
\* chain, route handler; the first step that fails produces the response
\* and no later step runs.
C1_FirstFailureProducesResponse ==
    /\ StepsInOrder
    /\ \A j \in 1..Len(trace[Req]) :
          trace[Req][j].ev = "handler" => ~ChainThrew(SubSeq(trace[Req], 1, j))
    /\ ctl[Req].op = "done" => ctl[Req].v.t = "resp"

\* C2: router.handler resolves to a Response for every request; what a
\* middleware throws, "next() called multiple times" included, becomes a
\* 500 response.
C2_HandlerAlwaysResolves ==
    (ctl[Req].op = "done" /\ ChainThrew(trace[Req])) =>
        /\ ctl[Req].v.t = "resp"
        /\ ctl[Req].v.status = 500

\* C3: every response router.handler returns carries the CORS headers
\* computed for the request.
C3_EveryResponseCarriesCors ==
    (ctl[Req].op = "done" /\ ctl[Req].v.t = "resp") => ctl[Req].v.cors

\* the roles an auth-required route declares: the allowedRoles shorthand,
\* or authentication.allowedRoles with requireRBAC
DeclaresRoles(rt) ==
    /\ rt.authRequired
    /\ \/ rt.allowedRoles.has
       \/ rt.authentication.requireRBAC = "true" /\ rt.authentication.allowedRoles.has

DeclaredRoles(rt) ==
    IF rt.allowedRoles.has
    THEN RoleSet(rt.allowedRoles)
    ELSE RoleSet(rt.authentication.allowedRoles)

\* C4: when the handler of an auth-required route that declares allowed
\* roles R is invoked, the context holds a user whose role is in R.
C4_HandlerSeesUserWithAllowedRole ==
    (CountEv(trace[Req], HandlerName, "handler") > 0 /\ DeclaresRoles(route[Req])) =>
        /\ ctx[Req].user.present
        /\ ctx[Req].user.role \in DeclaredRoles(route[Req])

-----------------------------------------------------------------------------
(* Properties of a composed middleware used on its own *)

BeforesOf(t) == SelectSeq(t, LAMBDA e : e.ev = "before")

\* the middlewares a request enters: all up to and including the first
\* that does not call next()
EnteredCount(mws) ==
    IF \E j \in 1..Len(mws) : mws[j].kind \in {"short", "throw"}
    THEN CHOOSE j \in 1..Len(mws) :
            /\ mws[j].kind \in {"short", "throw"}
            /\ \A i \in 1..(j - 1) : mws[i].kind \notin {"short", "throw"}
    ELSE Len(mws)

\* C8: requests in flight on one composed middleware do not interfere: no
\* request sees "next() called multiple times" (no middleware calls next()
\* twice here), and every request enters the middlewares in list order,
\* none skipped and none repeated, and reaches the terminal continuation
\* exactly when no middleware stops the chain.
C8_NoCrossRequestInterference ==
    \A r \in Runs :
        LET t == trace[r]
            b == BeforesOf(t)
            mws == router.middlewares
        IN /\ \A j \in 1..Len(t) : t[j].v /= MultipleNextError
           /\ ctl[r].op \in {"return", "done"} => ctl[r].v /= MultipleNextError
           /\ Len(b) <= Len(mws)
           /\ \A j \in 1..Len(b) : b[j].who = mws[j].name
           /\ ctl[r].op = "done" =>
                 /\ Len(b) = EnteredCount(mws)
                 /\ CountEv(t, TerminalName, "terminal") =
                       (IF \E j \in 1..Len(mws) : mws[j].kind \in {"short", "throw"}
                        THEN 0 ELSE 1)

\* two requests are suspended inside the chain at different depths
C8_Witness ==
    /\ Cardinality(Runs) >= 2
    /\ \E r, q \in Runs :
          /\ r /= q
          /\ stk[r] /= <<>> /\ stk[q] /= <<>>
          /\ ctl[r].op = "invoke" /\ ctl[q].op = "return"
          /\ Len(stk[q]) > Len(stk[r])

\* C9: compose([A, B, C]), compose([compose([A, B]), C]) and
\* compose([A, compose([B, C])]) run the same middlewares in the same order
\* with the same results of next() and return the same value; compose([])
\* only invokes the terminal continuation and returns its result.
C9_Associative ==
    /\ \A r, q \in {"flat", "left", "right"} :
          (ctl[r].op = "done" /\ ctl[q].op = "done") =>
              /\ trace[r] = trace[q]
              /\ ctl[r].v = ctl[q].v
    /\ ctl["empty"].op = "done" =>
          /\ trace["empty"] = <<Event(TerminalName, "terminal", 0, TerminalValue)>>
          /\ ctl["empty"].v = TerminalValue

\* all four compositions have run; A, B and C all reached the terminal
C9_Witness ==
    /\ \A r \in Shapes : ctl[r].op = "done"
    /\ CountEv(trace["left"], TerminalName, "terminal") = 1
    /\ Len(trace["right"]) >= 7

-----------------------------------------------------------------------------
(* Properties of validateAuthResult (SpecAuth) *)

\* C10: validateAuthResult is the decision procedure, in this priority:
\* (1) an error response is returned unchanged; (2) else a serviceBypassed
\* result is returned unchanged; (3) else requireUserAuth without a user
\* gives 401; (4) else requireRBAC with a user gives 403 when the user has
\* no role, allowedRoles is missing or empty, or the role is not in it;
\* (5) else the result is returned unchanged.  So requireRBAC with
\* allowedRoles = [] and a user gives 403 whatever the role.
C10_DecisionProcedure ==
    auth[Req].state = "validated" =>
        LET res == auth[Req].result
            opt == auth[Req].options
            out == auth[Req].validated
            unchanged == out = res
            status(n) == out.response.t = "resp" /\ out.response.status = n
                             /\ ~out.user.present /\ out /= res
        IN /\ CASE res.response.t = "resp" -> unchanged
                [] res.serviceBypassed = "true" -> unchanged
                [] opt.requireUserAuth = "true" /\ ~res.user.present -> status(401)
                [] opt.requireRBAC = "true" /\ res.user.present
                       /\ (\/ res.user.role \notin Roles
                           \/ ~opt.allowedRoles.has
                           \/ RoleSet(opt.allowedRoles) = {}
                           \/ res.user.role \notin RoleSet(opt.allowedRoles)) -> status(403)
                [] OTHER -> unchanged
           /\ (/\ res.response.t /= "resp" /\ res.serviceBypassed /= "true"
               /\ opt.requireRBAC = "true" /\ opt.allowedRoles = Given(<<>>)
               /\ res.user.present) => status(403)

\* a service-bypassed result without a user under requireUserAuth and
\* requireRBAC was validated: rule (2) decides before rules (3) and (4)
C10_Witness ==
    /\ auth[Req].state = "validated"
    /\ auth[Req].result.serviceBypassed = "true"
    /\ auth[Req].result.response.t /= "resp"
    /\ ~auth[Req].result.user.present
    /\ auth[Req].options.requireUserAuth = "true"
    /\ auth[Req].options.requireRBAC = "true"
    /\ auth[Req].options.allowedRoles = Given(<<>>)

-----------------------------------------------------------------------------
(* Properties of authentication in the request handler *)

HasRan(t, step) == \E j \in 1..Len(t) : t[j] = Ran(step)

HandlerRan(t) == CountEv(t, HandlerName, "handler") > 0

\* the handler has answered the request with what the route handler gave
AnsweredByHandler ==
    /\ ctl[Req].op = "done"
    /\ HandlerRan(trace[Req])
    /\ ctl[Req].v \in {HandlerResponse(o) : o \in HandlerOutcomes}

BearerToken(h) == h.has /\ h.bearer

\* C11: with the default auth handler, when a route with
\* bypassWithServiceRole is requested with the service-role key as bearer
\* token, the auth result is serviceBypassed, auth.getUser is not called and
\* the request is answered by the route handler.
C11_ServiceRoleBypass ==
    (/\ auth[Req].state = "validated"
     /\ Truthy(auth[Req].options.bypassWithServiceRole)
     /\ BearerToken(ctx[Req].authorization)
     /\ TokenOf(ctx[Req].authorization) = ServiceKey) =>
        /\ auth[Req].result.serviceBypassed = "true"
        /\ auth[Req].validated = auth[Req].result
        /\ auth[Req].result.response.t /= "resp"
        /\ ~auth[Req].getUser
        /\ ctl[Req].op = "done" => AnsweredByHandler

C11_Witness ==
    /\ auth[Req].state = "validated"
    /\ Truthy(auth[Req].options.bypassWithServiceRole)
    /\ ~Truthy(auth[Req].options.requireServiceRole)
    /\ Truthy(auth[Req].options.requireUserAuth)
    /\ BearerToken(ctx[Req].authorization)
    /\ TokenOf(ctx[Req].authorization) = ServiceKey
    /\ AnsweredByHandler

\* C12: with the default auth handler, the handler of a route with
\* authentication.requireServiceRole runs only for requests whose token is
\* the service-role key; every other token gets 401 and auth.getUser is not
\* called.
C12_ServiceRoleOnly ==
    (/\ trace[Req] /= <<>>
     /\ route[Req].authRequired
     /\ Truthy(route[Req].authentication.requireServiceRole)) =>
        /\ HandlerRan(trace[Req]) => TokenOf(ctx[Req].authorization) = ServiceKey
        /\ (auth[Req].state = "validated" /\ TokenOf(ctx[Req].authorization) /= ServiceKey) =>
              /\ ctl[Req].op = "done"
              /\ ctl[Req].v.t = "resp"
              /\ ctl[Req].v.status = 401
              /\ ~auth[Req].getUser
              /\ ~HandlerRan(trace[Req])

C12_Witness ==
    /\ trace[Req] /= <<>>
    /\ route[Req].authRequired
    /\ Truthy(route[Req].authentication.requireServiceRole)
    /\ Truthy(route[Req].authentication.bypassWithAnonRole)
    /\ route[Req].authentication.requireUserAuth = "false"
    /\ auth[Req].state = "validated"
    /\ TokenOf(ctx[Req].authorization) = AnonKey
    /\ ctl[Req].op = "done"
    /\ ctl[Req].v.status = 401

\* when getAuthHandler() has not rejected, a request whose method is not in
\* the effective allowed methods gets 405 before the auth handler is invoked
MethodCheckedAfterResolution ==
    (/\ route[Req].authRequired
     /\ HasRan(trace[Req], "auth")
     /\ auth[Req].state /= "threw"
     /\ MethodNotAllowed(ctx[Req].method, MergeAuthOptions(route[Req]))) =>
        /\ ctl[Req] = Done(Resp(405, TRUE, <<"methodNotAllowed", 0>>))
        /\ ~HasRan(trace[Req], "authHandler")
        /\ ~HandlerRan(trace[Req])

\* C13: on an auth-required route, a request whose method is not in the
\* effective allowed methods gets 405, and neither the auth handler nor the
\* route handler is invoked.
C13_MethodNotAllowedGives405 ==
    (/\ route[Req].authRequired
     /\ HasRan(trace[Req], "auth")
     /\ MethodNotAllowed(ctx[Req].method, MergeAuthOptions(route[Req]))) =>
        /\ ctl[Req].op = "done"
        /\ ctl[Req].v.t = "resp"
        /\ ctl[Req].v.status = 405
        /\ ~HasRan(trace[Req], "authHandler")
        /\ ~HandlerRan(trace[Req])

\* C14: a router without authHandler whose environment lacks SUPABASE_URL,
\* SUPABASE_SERVICE_ROLE_KEY or SUPABASE_ANON_KEY is never built:
\* defineRouter fails.
C14_MissingEnvironmentFailsDefineRouter ==
    DefaultHandlerThrows(router.env) => ctl[Req].op \in {"config", "buildFailed"}

\* C15: an error thrown while the auth handler is resolved or invoked gives
\* the 500 response "Authentication configuration error"; no middleware and
\* no route handler runs for the request.
C15_AuthErrorGives500 ==
    auth[Req].state = "threw" =>
        /\ ctl[Req] = Done(Resp(500, TRUE, <<"Authentication configuration error", 0>>))
        /\ ~HasRan(trace[Req], "chain")
        /\ ChainEvents(trace[Req]) = <<>>

C15_Witness ==
    /\ auth[Req].state = "threw"
    /\ HasRan(trace[Req], "authHandler")
    /\ router.middlewares /= <<>>
    /\ route[Req].middlewares /= <<>>
    /\ ctl[Req].op = "done"

\* the request has passed every step before authentication
ReachedAuthentication ==
    /\ HasRan(trace[Req], "db")
    /\ \A j \in 1..Len(trace[Req]) :
          trace[Req][j].ev = "fail" => trace[Req][j].who[1] \in {"auth", "authHandler"}

\* C16: on a route with authRequired: false the auth handler is neither
\* resolved nor invoked, whatever the Authorization header; the request
\* goes to the chain and the handler, with the anonymous client when it
\* can be created and without a client when it cannot.
C16_PublicRouteSkipsAuth ==
    (ReachedAuthentication /\ route[Req].declared = "false") =>
        /\ ~HasRan(trace[Req], "auth")
        /\ ~HasRan(trace[Req], "authHandler")
        /\ auth[Req].state = "none"
        /\ ~ctx[Req].user.present
        /\ ctl[Req].op \notin {"db", "auth"} =>
              ctx[Req].supabaseClient = (router.env.url /\ router.env.anonKey)
        /\ ctl[Req].op = "done" => AnsweredByHandler

C16_Witness ==
    /\ ReachedAuthentication
    /\ route[Req].declared = "false"
    /\ ~router.env.anonKey
    /\ BearerToken(ctx[Req].authorization)
    /\ TokenOf(ctx[Req].authorization) = "jwt"
    /\ AnsweredByHandler
    /\ ~ctx[Req].supabaseClient

\* C17: a route declared without authRequired is public: on a router whose
\* environment is complete a request without Authorization header is
\* answered by the route handler.
C17_RouteWithoutAuthRequiredIsPublic ==
    (/\ ReachedAuthentication
     /\ ~DefaultHandlerThrows(router.env)
     /\ route[Req].declared = "undefined"
     /\ ~ctx[Req].authorization.has
     /\ ctl[Req].op = "done") =>
        AnsweredByHandler

-----------------------------------------------------------------------------
(* Properties of the route lookup (SpecMatch) *)

\* a request has been received and looked up
LookedUp == ctl[Req].op /= "idle"

\* the declared routes whose path accepts the path of the request
Accepting ==
    {i \in 1..Len(router.routes) : RegexTest(router.routes[i].path, ctx[Req].path)}

\* those of them with the method of the request (any method for OPTIONS)
Candidates ==
    IF ctx[Req].method = "OPTIONS"
    THEN Accepting
    ELSE {i \in Accepting : router.routes[i].method = ctx[Req].method}

MethodsAtPath == {router.routes[i].method : i \in Accepting}

\* the methods a header must list for the path of the request
ExpectedMethods ==
    IF MethodsAtPath = {} THEN {} ELSE MethodsAtPath \cup {"OPTIONS"}

Elements(list) == {list[i] : i \in 1..Len(list)}

NoDuplicates(list) == \A i, j \in 1..Len(list) : list[i] = list[j] => i = j

\* the header lists exactly these methods, each once
Lists(list, methods) == Elements(list) = methods /\ NoDuplicates(list)

\* C18: a non-OPTIONS request that matches no declared route gets 404,
\* nothing is invoked for it, and the Access-Control-Allow-Methods header
\* lists the methods of the routes matching the path plus OPTIONS, or is
\* empty when no route matches the path.
C18_NotFound ==
    (LookedUp /\ ctx[Req].method /= "OPTIONS" /\ Candidates = {}) =>
        /\ ctl[Req].op = "done"
        /\ ctl[Req].v.status = 404
        /\ trace[Req] = <<>>
        /\ Lists(ctl[Req].v.headers.accessControlAllowMethods, ExpectedMethods)
        /\ Accepting = {} => ctl[Req].v.headers.accessControlAllowMethods = <<>>

C18_Witness ==
    /\ LookedUp
    /\ ctx[Req].method = "DELETE"
    /\ MethodsAtPath = {"GET", "POST"}
    /\ ctl[Req].op = "done"
    /\ ctl[Req].v.status = 404
    /\ Len(ctl[Req].v.headers.accessControlAllowMethods) = 3

\* the preflight answer without the Allow header: 204 with the methods of
\* the path plus OPTIONS in Access-Control-Allow-Methods, 404 for a path no
\* route matches, and nothing invoked
PreflightListsMethods ==
    (LookedUp /\ ctx[Req].method = "OPTIONS") =>
        /\ ctl[Req].op = "done"
        /\ trace[Req] = <<>>
        /\ IF Accepting = {}
           THEN ctl[Req].v.status = 404
           ELSE /\ ctl[Req].v.status = 204
                /\ Lists(ctl[Req].v.headers.accessControlAllowMethods, ExpectedMethods)

\* C19: an OPTIONS request to a path some route matches gets 204, its Allow
\* and Access-Control-Allow-Methods headers list exactly the distinct
\* methods of the routes matching the path plus OPTIONS, and nothing is
\* invoked; for a path no route matches it gets 404.
C19_Preflight ==
    (LookedUp /\ ctx[Req].method = "OPTIONS") =>
        /\ PreflightListsMethods
        /\ Accepting /= {} =>
              /\ ctl[Req].v.headers.allow.has
              /\ Lists(ctl[Req].v.headers.allow.val, ExpectedMethods)

Least(S) == CHOOSE i \in S : \A j \in S : i <= j

\* C20: matchRoute returns the earliest declared route among those with the
\* method of the request whose path accepts the path (among all routes
\* whose path accepts it for OPTIONS), and none exactly when there is none.
C20_FirstDeclaredWins ==
    LookedUp =>
        IF Candidates = {}
        THEN ~route[Req].found
        ELSE /\ route[Req].found
             /\ route[Req].route = router.routes[Least(Candidates)]

C20_Witness ==
    /\ LookedUp
    /\ ctx[Req].method = "GET"
    /\ ctx[Req].path = <<"users", "me">>
    /\ Len(router.routes) = 3
    /\ router.routes[1].method = "POST"
    /\ router.routes[2] = [method |-> "GET", path |-> <<Lit("users"), Param("id")>>, idx |-> 2]
    /\ router.routes[3] = [method |-> "GET", path |-> <<Lit("users"), Lit("me")>>, idx |-> 3]
    /\ route[Req].found
    /\ route[Req].route.idx = 2

-----------------------------------------------------------------------------
(* Properties of the route paths (SpecCompile) *)

\* what the segments of the route path declare
SegmentKinds == {router.segments[i].kind : i \in 1..Len(router.segments)}

\* the names of the parameters the path declares, left to right
DeclaredParams ==
    LET declaring == ParamSegments(router.segments)
    IN [i \in 1..Len(declaring) |-> declaring[i].name]

DeclaresTwice ==
    \E i, j \in 1..Len(DeclaredParams) : i < j /\ DeclaredParams[i] = DeclaredParams[j]

Compiled == ctl[Req].op /= "config"

\* C21: compileRoute throws and constructs no matcher for a path that
\* contains "..", "%2e%2e" in any letter case or a NUL, or that declares the
\* same parameter name twice.
C21_UnsafePathIsNotCompiled ==
    (/\ Compiled
     /\ \/ SegmentKinds \cap {"traversal", "encoded", "nul"} /= {}
        \/ DeclaresTwice) =>
        /\ ctl[Req].op = "buildFailed"
        /\ ~route[Req].compiled

\* a path whose only fault is a parameter name declared twice was rejected
C21_Witness ==
    /\ ctl[Req].op = "buildFailed"
    /\ DeclaresTwice
    /\ SegmentKinds = {"param"}

\* C22: compileRoute fails for a path that declares a malformed parameter
\* name, a colon token whose name does not match ^[A-Za-z_][A-Za-z0-9_]*$.
C22_MalformedParamNameIsNotCompiled ==
    (Compiled /\ "malformed" \in SegmentKinds) =>
        ctl[Req].op = "buildFailed"

ValidPath == SegmentKinds \subseteq {"literal", "param"} /\ ~DeclaresTwice

\* a valid path compiles, and its parameter list is the declared names in
\* declaration order
DeclaredParamsListed ==
    (Compiled /\ ValidPath) =>
        /\ ctl[Req].op /= "buildFailed"
        /\ route[Req].compiled
        /\ route[Req].params = DeclaredParams

Matched == ctl[Req].op \in {"matched", "unmatched"}

\* C23: a valid path with N declared parameters compiles to a parameter list
\* of length N in declaration order, and matching the path built with a
\* token in the place of each parameter succeeds and yields those tokens as
\* the parameter values.
C23_RoundTrip ==
    /\ DeclaredParamsListed
    /\ (Matched /\ ValidPath) =>
          \A tokens \in [1..Len(DeclaredParams) -> PathTokens] :
             ctx[Req].path = BuildPath(router.segments, tokens, 1) =>
                /\ ctl[Req].op = "matched"
                /\ \A i \in 1..Len(DeclaredParams) :
                      ctx[Req].params[DeclaredParams[i]] = tokens[i]

\* the tokens made of the characters the capture group accepts, without
\* percent escapes
PlainTokens ==
    {token \in PathTokens :
        \A i \in 1..Len(token) : SafeParamChar(token[i]) /\ token[i] /= "%"}

\* the round trip holds for the plain tokens
RoundTripOfPlainTokens ==
    (Matched /\ ValidPath) =>
        \A tokens \in [1..Len(DeclaredParams) -> PlainTokens] :
           ctx[Req].path = BuildPath(router.segments, tokens, 1) =>
              /\ ctl[Req].op = "matched"
              /\ \A i \in 1..Len(DeclaredParams) :
                    ctx[Req].params[DeclaredParams[i]] = tokens[i]

\* a request with two parameters, both plain tokens, was matched
RoundTripWitness ==
    /\ ctl[Req].op = "matched"
    /\ Len(DeclaredParams) = 2
    /\ \E tokens \in [1..2 -> PlainTokens] :
          /\ tokens[1] /= tokens[2]
          /\ ctx[Req].path = BuildPath(router.segments, tokens, 1)

-----------------------------------------------------------------------------
(* Properties of the query parsing (SpecQuery) *)

QueryParsed == ctl[Req].op = "query"

\* the keys the mapping must not hold
ExcludedKey(key) ==
    \/ key \in {ProtoKey, ConstructorKey, PrototypeKey}
    \/ \E i \in 1..Len(key) : key[i] \in {"[", "]"}
    \/ (key /= <<>> /\ key[1] = "_")

\* the value of the first occurrence of key among the pairs
FirstValue(pairs, key) ==
    pairs[Least({i \in 1..Len(pairs) : pairs[i].key = key})].value

\* C25: the mapping parseQuerySafely returns has no inherited keys; its keys
\* are the keys of the query string outside {__proto__, constructor,
\* prototype}, without "[" or "]" and not starting with "_", each with the
\* value of its first occurrence; the other keys are left out without an
\* error. For "__proto__=x&a=1&a=2" it is exactly {a: "1"}.
C25_SafeQuery ==
    QueryParsed =>
        LET pairs == SearchParams(ctx[Req].search)
            keys == {pairs[i].key : i \in 1..Len(pairs)}
        IN /\ DOMAIN ctx[Req].query = {key \in keys : ~ExcludedKey(key)}
           /\ \A key \in DOMAIN ctx[Req].query :
                 ctx[Req].query[key] = FirstValue(pairs, key)
           /\ ctx[Req].search = JoinPieces(<<ProtoKey \o <<"=", "x">>,
                                             <<"a", "=", "1">>, <<"a", "=", "2">>>>)
                 => ctx[Req].query = (<<"a">> :> <<"1">>)

\* "__proto__=x&a=1&a=2" was parsed
C25_Witness ==
    /\ QueryParsed
    /\ ctx[Req].search = JoinPieces(<<ProtoKey \o <<"=", "x">>,
                                      <<"a", "=", "1">>, <<"a", "=", "2">>>>)
    /\ DOMAIN ctx[Req].query = {<<"a">>}

-----------------------------------------------------------------------------
(* Properties of the error messages (SpecMessage) *)

Sanitized == ctl[Req].op = "done"

\* the message given and the message returned
MessageGiven == trace[Req][1].v
MessageReturned == ctl[Req].v.body.error

SchemeTokens == {JavascriptScheme, DataScheme, VbscriptScheme, FileScheme}

\* the token occurs in s in some letter case
OccursInAnyCase(s, token) ==
    \E i \in 1..Len(s) :
       /\ i + Len(token) - 1 <= Len(s)
       /\ \A k \in 1..Len(token) : LowerChar(s[i + k - 1]) = token[k]

\* at most 500 characters, none of them <, >, " or '; a value that is not a
\* string gives "Internal server error"
EscapedAndBounded ==
    Sanitized =>
        /\ Len(MessageReturned) <= 500
        /\ \A i \in 1..Len(MessageReturned) :
              MessageReturned[i] \notin {"<", ">", "\"", "'"}
        /\ ~MessageGiven.isString => MessageReturned = InternalServerError

\* C26: for a string sanitizeErrorMessage returns at most 500 characters,
\* without <, >, double or single quote, and without any of javascript:,
\* data:, vbscript:, file: in any letter case; for a value that is not a
\* string it returns "Internal server error".
C26_SanitizedMessage ==
    /\ EscapedAndBounded
    /\ (Sanitized /\ MessageGiven.isString) =>
          \A token \in SchemeTokens : ~OccursInAnyCase(MessageReturned, token)

\* a long message was cut at 500 characters, inside the entity of its last
\* character
EscapedAndBoundedWitness ==
    /\ Sanitized
    /\ MessageGiven.isString
    /\ Len(MessageGiven.chars) < 500
    /\ Len(MessageReturned) = 500
    /\ MessageReturned[500] /= ";"

-----------------------------------------------------------------------------
(* Properties of the requests with their data (SpecData) *)

\* a middleware or the route handler has been invoked
Invoked(t) == \E j \in 1..Len(t) : t[j].ev \notin {"step", "fail"}

\* the values matchRoute captured for the request: the groups of the regex
CapturedValues == RegexExec(route[Req].regex, ctx[Req].path).groups

HasAt(s, sub, i) ==
    i + Len(sub) - 1 <= Len(s) /\ \A k \in 1..Len(sub) : s[i + k - 1] = sub[k]

Has(s, sub) == \E i \in 1..Len(s) : HasAt(s, sub, i)

\* what the context may hold as the value of a path parameter
SafeValue(value) ==
    /\ Len(value) <= 200
    /\ ~Has(value, <<".", ".">>)
    /\ \A i \in 1..Len(value) : value[i] \notin {"/", "\\", "NUL"}

\* the captured value fails sanitization: it is too long, holds an encoded
\* traversal marker, cannot be decoded, or is unsafe once decoded
FailsSanitization(raw) ==
    \/ Len(raw) > 200
    \/ \E marker \in {<<"%", "2", "e", "%", "2", "e">>, <<"%", "2", "f">>, <<"%", "5", "c">>} :
          Has(ToLowerCase(raw), marker)
    \/ DecodeURIComponent(raw).throws
    \/ ~SafeValue(DecodeURIComponent(raw).value)

\* C24: when a middleware or the route handler is invoked, the context holds
\* a value for each parameter of the route, of at most 200 characters and
\* without "..", "/", "\" and NUL; a request with a captured parameter that
\* fails sanitization gets 400 and nothing after the sanitization runs.
C24_SanitizedParams ==
    /\ Invoked(trace[Req]) =>
          /\ DOMAIN ctx[Req].sanitizedParams =
                {route[Req].params[i] : i \in 1..Len(route[Req].params)}
          /\ \A name \in DOMAIN ctx[Req].sanitizedParams :
                SafeValue(ctx[Req].sanitizedParams[name])
    /\ (/\ HasRan(trace[Req], "sanitize")
        /\ \E i \in 1..Len(CapturedValues) : FailsSanitization(CapturedValues[i])) =>
          /\ ctl[Req].op = "done"
          /\ ctl[Req].v.status = 400
          /\ trace[Req] = <<Ran("sanitize"), Failed("sanitize", ctl[Req].v)>>

\* the route handler ran with a parameter of 200 characters and another that
\* was decoded
C24_Witness ==
    /\ HandlerRan(trace[Req])
    /\ Len(route[Req].params) = 2
    /\ Len(ctx[Req].sanitizedParams[route[Req].params[1]]) = 200
    /\ ctx[Req].sanitizedParams[route[Req].params[2]] = <<"A">>

\* a request whose second parameter alone fails sanitization got 400
SanitizationFailureWitness ==
    /\ HasRan(trace[Req], "sanitize")
    /\ ctl[Req].op = "done"
    /\ Len(CapturedValues) = 2
    /\ ~FailsSanitization(CapturedValues[1])
    /\ CapturedValues[2] = <<"%", "0", "0">>

\* the Content-Type of the request, application/json when it has none
RequestContentType ==
    IF ctx[Req].contentType.has THEN ctx[Req].contentType.val ELSE ApplicationJson

\* the supported list of the route: the declared one, or application/json only
SupportedList ==
    IF router.route.supportedContentTypes.has
    THEN router.route.supportedContentTypes.val
    ELSE <<ApplicationJson>>

BodyChecked ==
    /\ HasRan(trace[Req], "body")
    /\ router.route.requestSchema.kind /= "none"

NoSchemaKey ==
    /\ router.route.requestSchema.kind = "multi"
    /\ \A i \in 1..Len(router.route.requestSchema.types) :
          ~Has(RequestContentType, router.route.requestSchema.types[i])

OutsideSupportedList ==
    /\ router.route.requestSchema.kind = "single"
    /\ \A i \in 1..Len(SupportedList) : ~Has(RequestContentType, SupportedList[i])

FailsSchema ==
    /\ ~NoSchemaKey
    /\ ~OutsideSupportedList
    /\ ~ParseBodyThrows(RequestContentType, ctx[Req].body)
    /\ ctx[Req].body = "invalid"

RejectedAtBody(status, error, details) ==
    /\ ctl[Req].op = "done"
    /\ ctl[Req].v.status = status
    /\ ctl[Req].v.by[1] = error
    /\ ctl[Req].v.details = details
    /\ ~HandlerRan(trace[Req])
    /\ trace[Req][Len(trace[Req])] = Failed("body", ctl[Req].v)

\* C27: on a route with a body schema, a schema map without a key contained
\* in the Content-Type gives 415, a single schema with a Content-Type outside
\* the supported list of the route (application/json when none is declared)
\* gives 415, and a body that parses and fails the schema gives 400
\* "Validation failed" with details; the route handler is not invoked.
C27_BodyRejected ==
    BodyChecked =>
        /\ NoSchemaKey => RejectedAtBody(415, "Unsupported Media Type", FALSE)
        /\ OutsideSupportedList => RejectedAtBody(415, "Unsupported Media Type", FALSE)
        /\ FailsSchema => RejectedAtBody(400, "Validation failed", TRUE)

\* the same holds where the supported list of the route is not empty
BodyRejectedForListedTypes ==
    BodyChecked =>
        /\ NoSchemaKey => RejectedAtBody(415, "Unsupported Media Type", FALSE)
        /\ (OutsideSupportedList /\ Len(SupportedList) > 0) =>
              RejectedAtBody(415, "Unsupported Media Type", FALSE)
        /\ FailsSchema => RejectedAtBody(400, "Validation failed", TRUE)

\* text/plain on a route with one schema and no declared list got 415
BodyRejectedWitness ==
    /\ BodyChecked
    /\ OutsideSupportedList
    /\ ~router.route.supportedContentTypes.has
    /\ RequestContentType = TextPlain
    /\ RejectedAtBody(415, "Unsupported Media Type", FALSE)

\* the data client cannot be obtained: the accessor of the container throws,
\* or the connection string of the transaction pooler is not set
CannotObtainDbClient ==
    \/ router.database.getOrCreateDbClient = "throws"
    \/ /\ router.database.getOrCreateDbClient = "none"
       /\ router.database.enableTransactionPooler
       /\ ~router.database.connectionString

DatabaseNotConfigured ==
    /\ router.database.getOrCreateDbClient = "none"
    /\ ~router.database.enableTransactionPooler

\* C28: on a route with useDatabase, when the data client cannot be obtained
\* the response is 500 "Database connection error" and neither the auth
\* handler nor the route handler is invoked; defineRouter rejects a router
\* with such a route and no database support.
C28_DatabaseErrors ==
    /\ (/\ HasRan(trace[Req], "db")
        /\ router.route.useDatabase
        /\ CannotObtainDbClient) =>
          /\ ctl[Req].op = "done"
          /\ ctl[Req].v = Resp(500, TRUE, <<"Database connection error", 0>>)
          /\ ~HasRan(trace[Req], "authHandler")
          /\ auth[Req] = NoAuth
          /\ ~Invoked(trace[Req])
    /\ (/\ ctl[Req].op /= "config"
        /\ router.route.useDatabase
        /\ DatabaseNotConfigured) =>
          ctl[Req].op = "buildFailed"

\* a request on an auth-required route got the 500 because the connection
\* string is not set
C28_Witness ==
    /\ HasRan(trace[Req], "db")
    /\ router.route.useDatabase
    /\ router.route.authRequired
    /\ router.database.enableTransactionPooler
    /\ ~router.database.connectionString
    /\ ctl[Req].op = "done"
    /\ ctl[Req].v.status = 500

\* defineRouter rejected a router with a database route and no database
RejectedRouterWitness ==
    /\ ctl[Req].op = "buildFailed"
    /\ router.route.useDatabase
    /\ DatabaseNotConfigured

-----------------------------------------------------------------------------
(* Properties of the outcome of the route handler (SpecOutcome) *)

\* the request has been answered
Answered(r) == ctl[r].op = "done"

\* what route.handler returned or threw, if it was invoked
HandlerEvents(t) ==
    SelectSeq(t, LAMBDA e : e.who = HandlerName /\ e.ev \in {"returned", "threw"})

\* values that are no Response thrown in the request, by the route handler
\* or by the authentication
ThrownEvents(t) ==
    SelectSeq(t, LAMBDA e : e.ev = "threw" /\ e.v.t \in {"error", "thrown"})

\* the headers after are the headers before with the CORS headers merged in
CorsMerged(before, after, corsHeaders) ==
    /\ DOMAIN after = (DOMAIN before) \cup (DOMAIN corsHeaders)
    /\ \A name \in DOMAIN corsHeaders : after[name] = corsHeaders[name]
    /\ \A name \in (DOMAIN before) \ (DOMAIN corsHeaders) : after[name] = before[name]

\* the response is the Response given, status and body unchanged, with the
\* CORS headers merged in
UsedAsIs(given, response, corsHeaders) ==
    /\ response.status = given.status
    /\ response.body = given.body
    /\ response.by = given.by
    /\ CorsMerged(given.headers, response.headers, corsHeaders)

\* the status a route declares for a success, 200 if it declares none
DeclaredStatus(rt) ==
    IF rt.successResponseCode = NoCode THEN 200 ELSE rt.successResponseCode.val

DifferOnlyInMessage(r1, r2) ==
    /\ Answered(r1) /\ Answered(r2)
    /\ Len(ThrownEvents(trace[r1])) = 1
    /\ Len(ThrownEvents(trace[r2])) = 1
    /\ ThrownEvents(trace[r1])[1].who = ThrownEvents(trace[r2])[1].who
    /\ ThrownEvents(trace[r1])[1].v.isError
    /\ ThrownEvents(trace[r2])[1].v.isError

\* C30: two requests that differ only in the message of the error thrown,
\* by the route handler or during the authentication, get the same response
\* body.
C30_GenericErrorBody ==
    \A r1, r2 \in Requests :
        DifferOnlyInMessage(r1, r2) => ctl[r1].v.body = ctl[r2].v.body

\* what holds: the response is a 500, and for a value thrown by the route
\* handler that is no Error the body is { error: "Internal server error" }
ThrownValueGives500 ==
    \A r \in Requests :
        (Answered(r) /\ Len(ThrownEvents(trace[r])) > 0) =>
            /\ ctl[r].v.status = 500
            /\ (ThrownEvents(trace[r])[1].who = HandlerName
                /\ ~ThrownEvents(trace[r])[1].v.isError) =>
                  ctl[r].v.body =
                      JsonStringify(Obj(<<Property(<<"e", "r", "r", "o", "r">>,
                                                   Str(InternalServerError))>>))

ThrownValueWitness ==
    /\ Answered("req") /\ Answered("alt")
    /\ Len(ThrownEvents(trace["req"])) = 1
    /\ Len(ThrownEvents(trace["alt"])) = 1
    /\ ThrownEvents(trace["req"])[1].who = HandlerName
    /\ ~ThrownEvents(trace["req"])[1].v.isError
    /\ ThrownEvents(trace["alt"])[1].who = <<"authHandler", 0>>

-----------------------------------------------------------------------------
(* Properties of the error responses of the handler (SpecErrors) *)

\* the response of an answered request is an error response that the
\* handler made itself
DispatcherError(r) ==
    /\ Answered(r)
    /\ ctl[r].v.status >= 400

HasHeader(response, name, value) ==
    /\ name \in DOMAIN response.headers
    /\ response.headers[name] = value

\* the body is the JSON text of an object whose first field is a string
\* named error
HasErrorField(response) ==
    /\ response.body.has
    /\ StartsWith(response.body.val, <<"{", "\"", "e", "r", "r", "o", "r", "\"", ":", "\"">>)

\* C31: every error response the handler produces itself has a JSON body
\* with a string field error, the header Content-Type: application/json and
\* the header X-Content-Type-Options: nosniff.
C31_ErrorResponseShape ==
    \A r \in Requests :
        DispatcherError(r) =>
            /\ HasErrorField(ctl[r].v)
            /\ HasHeader(ctl[r].v, ContentType, "application/json")
            /\ HasHeader(ctl[r].v, XContentTypeOptions, "nosniff")

\* what holds: the body has the field error; every error response but the
\* 404 has Content-Type: application/json; the responses made by
\* createErrorResponse (401, 403) have nosniff
ErrorResponseBody ==
    \A r \in Requests :
        DispatcherError(r) =>
            /\ HasErrorField(ctl[r].v)
            /\ ctl[r].v.status /= 404 => HasHeader(ctl[r].v, ContentType, "application/json")
            /\ ctl[r].v.status \in {401, 403} =>
                  HasHeader(ctl[r].v, XContentTypeOptions, "nosniff")

ErrorResponseWitness ==
    /\ DispatcherError("req") /\ DispatcherError("alt")
    /\ ctl["req"].v.status = 404
    /\ ctl["alt"].v.status = 401

-----------------------------------------------------------------------------
(* Properties of the cached clients (SpecClients, SpecContainers) *)

\* the calls of one kind on the container that returned a client
ReturnedCalls(c, kind) ==
    SelectSeq(trace[c], LAMBDA e : e.who = <<kind, 0>> /\ e.ev = "returned")

SameValues(e, f) == e.url = f.url /\ e.key = f.key

\* the clients the calls before call i returned
EarlierClients(calls, i) == {calls[j].v : j \in 1..(i - 1)}

\* C32: for the calls of one kind on the container: the factory is invoked
\* only for the first client or when the URL or the key differs from the
\* values of the cached client; consecutive calls under the same URL and
\* key return the same instance; after a change of the URL or the key, the
\* next call returns a client newly created from the new values, and no
\* later call returns the old instance while the values stay as they are.
C32_ClientCache ==
    \A kind \in ClientKinds :
        LET calls == ReturnedCalls("container", kind)
        IN \A i \in 1..Len(calls) :
              /\ calls[i].n = 1 => (i = 1 \/ ~SameValues(calls[i], calls[i - 1]))
              /\ (i > 1 /\ SameValues(calls[i], calls[i - 1])) => calls[i].v = calls[i - 1].v
              /\ (i > 1 /\ ~SameValues(calls[i], calls[i - 1])) =>
                    /\ calls[i].v \notin EarlierClients(calls, i)
                    /\ calls[i].v.url = calls[i].url
                    /\ calls[i].v.key = calls[i].key
              /\ \A j \in 1..(i - 1) :
                    (~SameValues(calls[j], calls[i])
                     /\ \A k \in (j + 1)..i : SameValues(calls[k], calls[i]))
                    => calls[i].v /= calls[j].v

\* three calls for the anonymous client: two under the same values return
\* one instance, the third, after a change of the key, another
C32_Witness ==
    LET calls == ReturnedCalls("container", "anon")
    IN /\ Len(calls) = 3
       /\ SameValues(calls[1], calls[2])
       /\ calls[1].v = calls[2].v
       /\ calls[3].key /= calls[2].key
       /\ calls[3].v /= calls[2].v
       /\ calls[3].n = 1

\* C39: a client a container returns was created by the factory of that
\* container.
C39_OwnFactory ==
    \A c \in DOMAIN trace :
        \A i \in 1..Len(trace[c]) :
            trace[c][i].ev = "returned" => trace[c][i].v.factory = ctx[c].factory

-----------------------------------------------------------------------------
(* Properties of the rate limiter (SpecRate) *)

\* the requests with the key that were passed on to next() and arrived in
\* the interval (t - windowMs, t]
AdmittedIn(h, key, t, windowMs) ==
    {i \in 1..Len(h) : /\ h[i].who = <<key, 0>>
                       /\ h[i].ev = "next"
                       /\ t - windowMs < h[i].n
                       /\ h[i].n <= t}

\* C33: for every key and every time t, at most maxRequests requests with
\* the key were passed on to next() with arrival times in (t - windowMs, t];
\* a request gets 429, and next() is not called, exactly when maxRequests
\* admitted requests of its key lie within the last windowMs milliseconds:
\* the rejected requests do not count.
C33_RateLimit ==
    LET h == trace["req"]
    IN /\ \A key \in RateKeys : \A t \in 0..router.now :
             Cardinality(AdmittedIn(h, key, t, router.windowMs)) <= router.maxRequests
       /\ \A i \in 1..Len(h) :
             h[i].ev = "429" <=>
                Cardinality(AdmittedIn(SubSeq(h, 1, i - 1), h[i].who[1], h[i].n,
                                       router.windowMs)) >= router.maxRequests

\* a key is admitted, rejected twice within the window, and admitted again
\* when the window of the first request is over
C33_Witness ==
    LET h == trace["req"]
    IN /\ router.maxRequests = 1
       /\ Len(h) = 4
       /\ \A i \in 1..4 : h[i].who = <<"unknown", 0>>
       /\ h[1].ev = "next" /\ h[2].ev = "429" /\ h[3].ev = "429" /\ h[4].ev = "next"
       /\ h[4].n = h[1].n + router.windowMs

-----------------------------------------------------------------------------
(* Properties of the generated ids (SpecIds) *)

\* C34: the handler of the k-th request that reaches it receives the k-th
\* value of the generator: custom-id-1, custom-id-2, ...
C34_HandlerGetsKthId ==
    \A k \in 1..Len(router.userIds) : router.userIds[k] = CustomId(k)

\* what holds: the generator is called once for the requestId of every
\* request received and once by every handler, so that no id is given
\* twice and the handler of a request gets an id after its requestId
IdsGivenOnce ==
    /\ router.idCounter = router.received + Len(router.userIds)
    /\ \A j, k \in 1..Len(router.userIds) :
          router.userIds[j] = router.userIds[k] => j = k
    /\ \A r \in Requests : \A i, j \in 1..Len(trace[r]) :
          (trace[r][i].who = <<"requestId", 0>> /\ trace[r][j].who = HandlerName
           /\ trace[r][j].ev = "generate")
          => trace[r][j].v[2] > trace[r][i].v[2]

IdsGivenOnceWitness ==
    /\ Len(router.userIds) = 2
    /\ router.userIds[1] = CustomId(2)
    /\ router.userIds[2] = CustomId(4)

-----------------------------------------------------------------------------
(* Properties of the default auth handler and the environment (SpecDefault) *)

\* an answered GET request with a bearer token of a user, to an
\* auth-required route without authentication options, that passed the
\* steps before the authentication, on a router with this environment
UserRequestAnswered(env) ==
    /\ router.env = env
    /\ ctl[Req].op = "done"
    /\ ReachedAuthentication
    /\ route[Req].authRequired
    /\ route[Req].authentication = NoServiceOptions
    /\ ctx[Req].method = "GET"
    /\ BearerToken(ctx[Req].authorization)
    /\ TokenOf(ctx[Req].authorization) = "jwt"

\* the identity lookup is made, and when it accepts the token the request
\* is answered by the route handler, which runs with the user
AnsweredForUser ==
    /\ auth[Req].state = "validated"
    /\ auth[Req].getUser
    /\ auth[Req].result.user.present =>
          /\ AnsweredByHandler
          /\ ctx[Req].user = auth[Req].result.user

\* C35: on a router without authHandler whose environment has only
\* SUPABASE_URL and SUPABASE_SERVICE_ROLE_KEY, a GET request to an
\* auth-required route with a bearer token that the identity lookup accepts
\* is answered by the route handler, which runs with the resolved user.
C35_ServiceKeyEnvironment ==
    UserRequestAnswered(Env(TRUE, TRUE, FALSE)) => AnsweredForUser

\* the same holds when SUPABASE_ANON_KEY is set as well
AnsweredForUserWithAnonKey ==
    UserRequestAnswered(Env(TRUE, TRUE, TRUE)) => AnsweredForUser

AnsweredForUserWitness ==
    /\ UserRequestAnswered(Env(TRUE, TRUE, TRUE))
    /\ auth[Req].result.user.present
    /\ AnsweredByHandler

-----------------------------------------------------------------------------
(* Properties of the global CORS configuration (SpecCors) *)

\* the Origin header of the request
OriginOf(t) == t[1].v

\* an answered request whose route declares no CORS configuration, on a
\* router with global corsHeaders that list the allowed origins
AnsweredUnderGlobalCors ==
    /\ ctl[Req].op = "done"
    /\ "corsHeaders" \in DOMAIN route[Req]
    /\ ~route[Req].corsHeaders.has
    /\ router.corsHeaders.has
    /\ ~router.corsHeaders.wildcard

\* C36: on a router with global corsHeaders whose allowedOrigins is a list,
\* the responses for a route without CORS configuration of its own have
\* the request's origin as Access-Control-Allow-Origin when it is in the
\* list, and never "*".
C36_GlobalCorsApplies ==
    AnsweredUnderGlobalCors =>
        /\ Includes(router.corsHeaders.allowedOrigins, OriginOf(trace[Req])) =>
              HasHeader(ctl[Req].v, AccessControlAllowOrigin, OriginOf(trace[Req]))
        /\ ~HasHeader(ctl[Req].v, AccessControlAllowOrigin, "*")

\* what holds: the global corsHeaders are validated only; a route without
\* CORS configuration answers with defaultCors, a route with a
\* configuration with its own
RouteOrDefaultCors ==
    (ctl[Req].op = "done" /\ "corsHeaders" \in DOMAIN route[Req]) =>
        HasHeader(ctl[Req].v, AccessControlAllowOrigin,
                  IF route[Req].corsHeaders.has
                  THEN route[Req].corsHeaders.val[AccessControlAllowOrigin]
                  ELSE "*")

RouteOrDefaultCorsWitness ==
    /\ AnsweredUnderGlobalCors
    /\ router.corsHeaders.credentials
    /\ OriginOf(trace[Req]) = "https://evil.example"
    /\ ctl[Req].v.status = 200

-----------------------------------------------------------------------------
(* The two formats of matchRoute (SpecMatch) *)

\* what matchRoute returns for the request over the flat array of the
\* compiled routes
OverArray ==
    MatchRouteArray(ctx[Req].method, ctx[Req].path,
                    CompileRoutes(router.routes).routes)

\* C37: for every method, path and list of routes, matchRoute over the
\* method-indexed structure of compileRoutes returns the same route and the
\* same parameters as matchRoute over the flat array of the same compiled
\* routes, and none in the same cases.
C37_IndexedAsArray ==
    LookedUp =>
        /\ route[Req].found = OverArray.found
        /\ route[Req].found => route[Req].route = OverArray.route
        /\ MatchParams(route[Req], ctx[Req].path)
              = MatchParams(OverArray, ctx[Req].path)

\* a preflight for a path that routes of two methods accept, the first of
\* them with a parameter
C37_Witness ==
    /\ LookedUp
    /\ ctx[Req].method = "OPTIONS"
    /\ ctx[Req].path = <<"users", "42">>
    /\ Len(router.routes) = 3
    /\ router.routes[1].method = "GET"
    /\ router.routes[1].path = <<Lit("users"), Lit("me")>>
    /\ router.routes[2].method = "POST"
    /\ router.routes[2].path = <<Lit("users"), Param("id")>>
    /\ router.routes[3].method = "GET"
    /\ route[Req].found
    /\ route[Req].route.idx = 2
    /\ MatchParams(route[Req], ctx[Req].path) = [name \in {"id"} |-> "42"]

-----------------------------------------------------------------------------
(* The decoding of the path parameters (SpecData) *)

\* the group of the regex that gives the parameter its value: the last one
\* with the name
GroupOf(name) ==
    Greatest({i \in 1..Len(route[Req].params) : route[Req].params[i] = name})

\* C38: for a request that reaches the route handler, each path parameter of
\* the context is the segment of the path percent-decoded once; a segment
\* that still holds an escape after one decoding (%2541, which decodes to
\* %41) is not decoded again.
C38_DecodedOnce ==
    HandlerRan(trace[Req]) =>
        \A name \in DOMAIN ctx[Req].sanitizedParams :
            ctx[Req].sanitizedParams[name] = DecodeOrRaw(CapturedValues[GroupOf(name)])

\* what the code does: sanitizePathParam decodes the value matchRoute has
\* decoded
DecodedAgain ==
    HandlerRan(trace[Req]) =>
        \A name \in DOMAIN ctx[Req].sanitizedParams :
            ctx[Req].sanitizedParams[name] =
                DecodeURIComponent(DecodeOrRaw(CapturedValues[GroupOf(name)])).value

DecodedAgainWitness ==
    /\ HandlerRan(trace[Req])
    /\ Len(route[Req].params) = 1
    /\ CapturedValues[1] = <<"%", "2", "5", "4", "1">>
    /\ ctx[Req].params[route[Req].params[1]] = <<"%", "4", "1">>
    /\ ctx[Req].sanitizedParams[route[Req].params[1]] = <<"A">>

-----------------------------------------------------------------------------
(* Properties of the lazy auth handler (SpecLazy) *)

\* the request has been answered on a route with authRequired
AuthRequiredAnswered(r) ==
    ctl[r].op = "done" /\ route[r].authRequired

\* C40: for one router without authHandler, the default auth handler is
\* constructed at most once, whatever the requests and their interleaving;
\* when that attempt has failed, every request on a route with authRequired
\* gets 500, whatever the environment has become since.
C40_SingleAttempt ==
    /\ Len(router.attempts) <= 1
    /\ \A r \in Requests :
          AuthRequiredAnswered(r) =>
             /\ Len(router.attempts) = 1
             /\ DefaultHandlerThrows(router.attempts[1]) => ctl[r].v = AuthConfigError
             /\ ~DefaultHandlerThrows(router.attempts[1]) => ctl[r].v.status /= 500

\* the attempt failed on an incomplete environment; a request that arrived
\* then still waits for the handler, and one that arrived with the complete
\* environment got 500
C40_Witness ==
    /\ router.attempts = <<Env(TRUE, TRUE, FALSE)>>
    /\ router.env = Env(TRUE, TRUE, TRUE)
    /\ ctl["alt"].op = "await"
    /\ ctx["alt"].received = Env(TRUE, TRUE, FALSE)
    /\ AuthRequiredAnswered("req")
    /\ ctx["req"].received = Env(TRUE, TRUE, TRUE)
    /\ ctl["req"].v = AuthConfigError

====
